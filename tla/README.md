# TLA+ models of liburcu's call_rcu engine, its worker registry and QSBR grace periods

This directory holds TLA+ specifications of the deferred-reclamation engine
in `src/urcu-call-rcu-impl.h` (`call_rcu()`, its worker threads, the fork
handlers and the registry that creates and looks up workers) and of
the QSBR flavour's grace-period detection in `src/urcu/static/urcu-qsbr.h`,
and the TLC configurations that check them.

## 1. The system

`src/urcu-call-rcu-impl.h` is the main source. The other files are:

- `src/unnamed/part_000`: an older `urcu-call-rcu.c` (lines 1–671), modelled
  in `CallRcuOld`, followed by the `test_urcu_lfq.c` benchmark.
- `src/unnamed/part_001`: `urcu-bp.h`.
- `src/unnamed/part_002`: `arch_x86.h`.
- `src/urcu/static/urcu-qsbr.h`: the read side of the QSBR flavour. It
  holds reader quiescent states, online and offline, and `wake_up_gp`.

### Parts and their state

| Part | State in the code | Operations |
|---|---|---|
| Callback queue of a `call_rcu_data` (`crdp->cbs`, a `cds_wfq_queue`) | `head`, `tail` (address of the last `next` slot), the embedded `dummy` node, each node's `next` | producers enqueue (xchg on tail, then link); the worker drains (take head, store NULL, xchg tail back to `&head`); `call_rcu_data_free` splices a queue onto the default worker's |
| Worker thread (`call_rcu_thread`, 221–317) | `flags` (RT, STOP, STOPPED, PAUSE, PAUSED), `futex`, `qlen`, RCU registration, its control point | pause handshake, drain, `synchronize_rcu`, invoke loop, `qlen -= cbcount`, STOP check, futex sleep or 10 ms poll, exit |
| Futex gate (`call_rcu_wait` / `call_rcu_wake_up`, 199–217) | `crdp->futex` ∈ {0, −1, < −1} | the worker decrements and sleeps while it is −1; a producer resets it to 0 and issues FUTEX_WAKE when it reads −1 |
| Dispatcher `call_rcu()` (604–618) | none of its own; it runs inside `rcu_read_lock` | choose a worker (`get_call_rcu_data`), enqueue, `qlen++`, wake |
| Registry (76–135, 325–577) | `call_rcu_data_list`, `default_call_rcu_data`, `per_cpu_call_rcu_data[maxcpus]`, per-thread TLS override, `call_rcu_mutex` | create a worker, lazily create the default, set/get a CPU slot, create one worker per CPU, set the thread override |
| Teardown (642–719) | the per-CPU array, a worker being freed | `free_all_cpu_call_rcu_data`: NULL every slot, one grace period, then `call_rcu_data_free` on each evicted worker (STOP, wake, wait for STOPPED, splice leftovers onto the default, add qlen, list_del, free) |
| Fork handlers (727–797) | `call_rcu_mutex`, PAUSE/PAUSED flags | `before_fork`: lock, set PAUSE on and wake every worker, wait for every PAUSED; `after_fork_parent`: clear PAUSE, unlock; `after_fork_child`: new default worker, drop the per-CPU array, mark every old worker STOPPED and free it |

| QSBR readers (`urcu-qsbr.h`, 113–229) | `rcu_gp_ctr`, each reader's `ctr` and `waiting`, `gp_futex` | `_rcu_thread_online` (load `rcu_gp_ctr`, store it in `ctr`); `_rcu_quiescent_state` (the same, then `wake_up_gp`); `_rcu_thread_offline` (`ctr = 0`, then `wake_up_gp`); `_rcu_read_lock`/`_rcu_read_unlock` (no state); `wake_up_gp` (clear `waiting`, test `gp_futex == -1`, reset it to 0, FUTEX_WAKE) |
| QSBR writer (`synchronize_rcu` in `urcu-qsbr.c`, not in this repository) | the writer's wait loop | advance `rcu_gp_ctr`, scan readers with `rcu_gp_ongoing`, after `RCU_QS_ACTIVE_ATTEMPTS` scans arm `gp_futex = -1` and the `waiting` flags and sleep |

### How the parts interact

Many producer threads, one thread per worker, a thread doing teardown and a
forking thread all run at once.

- Producers and workers share the queue and the futex. No lock protects them.
- Producers and teardown share the per-CPU slots. They are held apart by
  RCU: the read-side lock in `call_rcu` and the grace period in `free_all`.
- Teardown and the fork handlers share `call_rcu_mutex` and the worker flags.
- Readers of the reclaimed objects meet the workers only through the grace
  period.

### What makes this code hard

- Every producer step can interleave with every worker step:
  - the transient NULL link of a half-done enqueue;
  - a futex decrement that races a wake;
  - a spurious FUTEX_WAIT return.
- A callback may land in a worker's queue just after its last drain and
  just before it sees STOP.
- Two stop protocols meet on the same worker: STOP/STOPPED for freeing,
  PAUSE/PAUSED for fork.
- The splice rewrites another worker's tail while that worker drains and
  producers enqueue on it.

### What must hold

- A callback runs only after a grace period that follows its enqueue.
- It runs exactly once, and only callbacks run (never a dummy node).
- Every callback eventually runs, with no lost wakeups.
- `qlen` matches the queue once the worker is at rest.
- `qlen` drops below zero only while a splice still owes it a count.
- The engine as a whole keeps the user contract of `call_rcu`
  (`RcuReclaim`).
- No thread touches a freed `call_rcu_data`.
- `before_fork` returns, and when it does every worker is paused.

## 2. Modules

### `CallRcu.tla`: the engine

The module fixes a set of workers (`Workers`, with `Default`, the
`RTWorkers` and the per-CPU array `PerCpu`). Around them run these threads:

- `Producers` calling `call_rcu`;
- `Readers` holding references to callback objects;
- one `Destroyer` running `free_all_cpu_call_rcu_data`;
- one `Forker` running `before_fork` / `after_fork_parent` up to `ForkRounds`
  times, or `before_fork` followed by `after_fork_child` in the child.

**State**

- **Queue:** `next[s]` for every node and head slot, and `tail[w]`.
  `Head(w)` is `&crdp->cbs.head` and `Dummy(w)` is `&crdp->cbs.dummy`.
- **Per worker:** `flags`, `futex`, `qlen`, `registered`, and the control
  point `wpc`. The thread's locals are `cursor` (`cbs`), `cbsTail` and
  `cbcount`.
- **Per thread:**
  - `pc`;
  - `tgt`, the crdp it uses;
  - `ret`, the return point after `wake_call_rcu_thread`;
  - `pnode`/`pold` for the enqueue.
- **Registry:**
  - `tls`: each producer's `URCU_TLS(thread_call_rcu_data)`;
  - `inList`: `call_rcu_data_list`;
  - `freed`;
  - `mutex`: the owner of `call_rcu_mutex`.
- **Teardown:** `dunpub`, `dfree` (the cpus still to handle in each loop of
  `free_all`), `dcur`, `dcbs`, `dtail`, `dprev`.
- **Fork:** `ftodo`, `forks`.
- **RCU:** `rin` (readers inside a critical section), `holds` (the object a
  reader dereferences), and `gpWait[g]`. `gpWait[g]` is the set of
  critical-section holders the `synchronize_rcu` of `g` still waits for.
- **Ghosts:** `status` of every callback (linked, queued, freed) and
  `invokes` per node.

**Actions and the code they come from**

- **Worker:** each labelled step of `call_rcu_thread` is one action:
  - `Start`, `PauseAck`, `NoPause`, `Resume`;
  - `CheckQueue`, `DrainHead`, `DrainXchg`, `GpStart`/`GpEnd` (the call to
    `synchronize_rcu`);
  - `InvokeNext` (one turn of the do/while loop), `QlenSub`;
  - `StopCheck`, `FutexWait`, `NapDec`, `ExitFutex`, `Stopped`.

  `FutexSpurious` is a FUTEX_WAIT that returns with no wake (EINTR). It is
  enabled only when `Spurious` is TRUE.
- **Producer:**
  - `CallRcu`: `rcu_read_lock`, choose a worker, `cds_wfq_node_init`.
  - `EnqueueXchg`/`EnqueueLink`: the two steps of `cds_wfq_enqueue`. That
    function is not in this repository, so these are modelled from the
    spec.
  - `QlenInc`, then the wake.
  - `CallRcuUnlock`.
- **Wake:** `wake_call_rcu_thread` is a subroutine with three steps:
  `WakeRead` (RT test and futex read), `WakeSet` and `WakeCall`. A thread
  enters it through `CallWake` and leaves to `ret`.
- **Destroyer:**
  - `UnpublishCpu`: one turn of `free_all`'s first loop, in cpu order.
  - `FreeAllGpStart`/`FreeAllGpEnd`.
  - `FreeAllNext`: the second loop.
  - `FreeCheck` … `FreeUnlink`: each step of `call_rcu_data_free`, in the
    code's order.
- **Forker:** `ForkLock`, `ForkPauseOne` (one turn of the first loop),
  `ForkPauseWait`, `ForkParent`, or in the child (763–797):
  - `ChildUnlock`: release the mutex; return at once if the list is empty.
  - `ChildNewDefault`: `default_call_rcu_data = NULL` and
    `get_default_call_rcu_data()`, which creates a worker. That worker is
    one of the `Spare` workers, `unborn` until then. Resetting the per-CPU
    array and the thread pointer is part of this step; nothing reads them
    again in the child.
  - `ChildFreeNext`: one turn of the list walk. It skips the new default,
    sets the flags to exactly STOPPED, and calls `call_rcu_data_free`.
  - `call_rcu_data_free` is a procedure, `CallRcuDataFree(t)`, of the
    Destroyer and of the Forker. `FreerStep(t)` runs it; the Destroyer
    does so only outside a fork child. Its frame (`dcur`, `dcbs`, `dtail`,
    `dprev`) is kept per thread, and `FreeRet(t)` is where each returns.
- **Fork child:** `child` is TRUE after `ChildUnlock`. From then on only
  the Forker and the `Spare` workers it created take steps (`Runs(w)`).
  Every other thread is frozen wherever `fork()` found it, which is what
  `fork()` does to the threads it does not copy. `InCS` is empty in the
  child. The bulletproof flavour's `rcu_bp_after_fork_child` (`part_001`,
  93–100) prunes the registry of readers that no longer exist, and no
  grace period waits for them.
- **Warm start:** with `Warm`, every worker starts past its first drain.
  Its dummy is already off its queue and it sleeps (or polls, if RT),
  which is the state a long-running process forks in. With `Warm` FALSE,
  workers start at `call_rcu_thread`'s first line with the dummy queued.
- **Readers:** `ReadLock` picks an object that has not yet been freed, or
  none. `ReadUnlock` leaves the critical section and removes the reader
  from every `gpWait`.

**Abstractions**

- **Memory model:** memory is sequentially consistent. The `cmm_smp_mb()`
  pairs of the futex protocol and the barriers before planting pointers
  are assumed to work.
- **Futex value:** only 0, −1 and "below −1" matter, because every test is
  `== -1`. `FutexDec` clamps at −2, which stands for all lower values.
- **Sleeps and polls:** `poll()` waits become guards.
  - `FUTEX_WAIT` with value −1 is the control point `blocked`. `WakeCall`
    leaves it.
  - The 10 ms naps become the `napdec` step.
- **Worker choice:** `GetCallRcuData` follows `get_call_rcu_data`:
  - the producer's own crdp (`tls`) if it has one;
  - else, when the per-CPU array exists, the slot of whichever cpu
    `sched_getcpu` returns (any cpu: the thread may migrate). A slot
    `free_all` has already NULLed (`Slot`) falls back to the default;
  - else the default.

  `SetThreadCallRcuData` lets an idle producer switch between NULL and the
  crdp the constant `ThreadCrdp` gives it. It is the user's job to clear it
  before that crdp is freed, so only `fork` and `fork_child` give producers
  one (the RT worker `w1`, which no cpu slot holds). The lazy creation of
  the default is not an action: the default exists from the start.
- **Registration:** `rcu_register_thread` is kept as the flag `registered`.
  In the urcu-bp flavour (`part_001`, 105–111) these calls are empty
  inlines.

### `MCCallRcu.tla`

This module declares the model values `w0` and `w1`. It builds the per-CPU
arrays the cfgs install:

- `NoCpus`;
- `OneCpu`;
- `DefaultCpus`: cpu 0 holds the default worker;
- `SharedCpus`: one worker on two cpus.

It also builds the `ThreadCrdp` maps: `NoThreadCrdp` gives every producer
NULL, and `W1ThreadCrdp` gives every producer `w1`. It also defines the symmetry set `CallbackSymmetry`.

### `CallRcuOld.tla`: the older `urcu-call-rcu.c`

This module models lines 1–671 of `part_000` with the same state as
`CallRcu`: queue links, worker control points, producer, Destroyer and
Forker control points. It differs from `CallRcu` where the older code
does:

- the worker (`call_rcu_thread`, 204–277) has no PAUSE handshake and no
  RCU registration. Its `synchronize_rcu` is folded into `DrainXchg`,
  because this module has no readers;
- `CallRcu` (541–548) calls `get_call_rcu_data` (`GetCallRcuData`,
  428–447) with no `rcu_read_lock`. It takes the per-CPU slot of any cpu
  if set, else the default. The default is returned as it stands, even
  when it no longer points to a `call_rcu_data`. An enqueue through such
  a pointer is not modelled: `CrdpLive` already fails in that state;
- `free_all` (606–620) walks the cpus with an index `dcpu`. It NULLs each
  slot through `set_cpu_call_rcu_data` (`FreeAllSetNull`) and calls
  `call_rcu_data_free` at once, with no grace period;
- `call_rcu_data_free` (572–601) returns early on an empty queue
  (`FreeEmptyCheck`), without unlisting or freeing. Its `FreeSwap` stores
  `cbs_tail` into `defaultW` itself. `FreeLink` then writes `cbs` into
  the first word of what the old value points to (`Word`: a
  `call_rcu_data`'s first word is `cbs.head`). `FreeQlen` adds to a
  `qlen` only if `defaultW` is still a worker. `FreeUnlink` unlists and
  frees with no lock;
- the fork handlers (627–671) only lock and unlock `call_rcu_mutex`. The
  child creates a new default from `Spare` (`ChildNewDefault`). It then
  runs `ChildLoop`: while the list has more than one entry, mark the last
  non-default entry STOPPED and free it.

Not modelled here: `create_call_rcu_data`, `create_all_cpu_call_rcu_data`,
`set_cpu_call_rcu_data` with a non-NULL crdp, the thread override, and the
lazy creation of the first default in the parent (it exists at the
start). `CallRcuRegistry` checks that logic on the current code.

`MCCallRcuOld.tla` declares `w0` and `w1` and the array `OneCpu`.

### `CallRcuRegistry.tla`: creating and finding workers

This module models the registry at the level of pointers. Workers are
reduced to their flags and to one step, `WorkerStop`: the STOP test of
`call_rcu_thread` setting STOPPED. Their queues are the subject of
`CallRcu`. The threads are `Creators`, running
`create_all_cpu_call_rcu_data`, `Getters`, running `get_call_rcu_data`
with no per-thread override, and `Installers`: an application thread
that calls `create_call_rcu_data`, then `set_cpu_call_rcu_data(cpu, crdp)`
with `cpu` anywhere in `CpuArgs` (`-1 .. NCpus`), and
`call_rcu_data_free(crdp)` when that fails, as the comment above
`set_cpu_call_rcu_data` prescribes.

- **State:**
  - `listed` (`call_rcu_data_list`), `defaultW`, `maxcpus`;
  - `percpu`: NULL, or the array of slots;
  - `mutex`, `flags`;
  - `used` and `freed`: the structures `malloc` has returned and those
    freed. `Fresh` lets `malloc` return a freed address again.
  - each thread's `pc`, loop index `i`, local `crdp`, and return value
    `rv`.
- **Actions:**
  - `Lock`: `call_rcu_lock`.
  - `CaAlloc`: `alloc_cpu_call_rcu_data` with the `maxcpus != 0` early
    return. `AllocOutcomes` lets `malloc` of the array fail when
    `MallocFails`. The action ends with the unlock and the `EINVAL`/`ENOMEM`
    checks.
  - `CaLoop`: the `for` test.
  - `CaGet`: the occupied-slot test, or `call_rcu_data_init`
    (`InitCrdp`), under the mutex.
  - `CaSetLock`/`CaSet`: `set_cpu_call_rcu_data`. On `-EEXIST` it sets
    STOP, which is the first part of `call_rcu_data_free`.
  - `CaFreeWait`, `CaFreeLock`, `CaFreeDel`: the rest of
    `call_rcu_data_free`, for a queue the stopped worker has emptied.
  - `CrLock`/`CrInit`: `create_call_rcu_data`, one `call_rcu_data_init`
    under the mutex.
  - `ScLock`/`ScSet`: the whole `set_cpu_call_rcu_data` for a non-NULL
    crdp. Its `alloc_cpu_call_rcu_data` may be the first one, and so the
    one whose `malloc` fails. `SetCpuResult` is the order of its tests:
    range (`EINVAL`), array (`ENOMEM`), populated slot (`EEXIST`), else 0.
    `SlotOf` reads a slot. Reading past the array, which only a wrong
    range test allows, is taken to find NULL.
  - `IsFree`, `IsFreeWait`, `IsFreeLock`, `IsFreeDel`:
    `call_rcu_data_free` of the worker the installer failed to install.
  - `Get`: `get_call_rcu_data` and `get_cpu_call_rcu_data` on any cpu.
  - `GdRead`, `GdLock`, `GdCheck`: the double-checked
    `get_default_call_rcu_data`.
  - `Terminated`: the stutter once every call has returned.

The `Crdps` are not declared symmetric, because the run checks liveness.

### `RcuReclaim.tla`: what `call_rcu` promises the user

The abstract specification of the engine, with no queues and no threads:

- **State:** each object's `status` (`linked`, `queued`, `freed`), the
  readers in a critical section (`rin`) and the object each one
  dereferences (`holds`).
- **Actions:**
  - `Retire`: the updater unlinks an object and calls `call_rcu`;
  - `Free`: its callback runs, allowed only when no reader holds it;
  - `Lock` and `Unlock`: a reader finds a linked object or nothing;
  - `ReadersLost`: a fork child has no readers.

`CallRcu` instantiates it with `Objects <- Callbacks`. Every other
variable keeps its name. `RefinesRcuReclaim == Reclaim!Spec` is checked in
`core`. The drain, grace period, invoke walk and producers' enqueue must
then together look like single `Free` and `Retire` steps.

### `RcuGp.tla`: what a grace period promises

The abstract specification, with no mechanism. Readers `Enter` and `Exit`
read-side critical sections (`inCS`). `Begin` starts a `synchronize_rcu`
by remembering `waitFor = inCS`. `Exit` removes its reader from `waitFor`.
`End` is allowed only when `waitFor` is empty.

### `Qsbr.tla`: QSBR grace-period detection

- **State:**
  - `build`: "32" or "64". It is chosen in `Init` from `Builds` and never
    changes. The two builds are the two binaries the header compiles to,
    so one run covers both.
  - `gpCtr` (`rcu_gp_ctr`, `CtrBits[build]` wide);
  - `ctr`, `waiting`, `gpFutex`;
  - the reader control point `rpc`, and the value `rval` a reader loaded
    and has not yet stored;
  - the writer's control point `wpc`, `wloops` (`wait_loops`), `phase`,
    `qs` (the `qsreaders` list), and `toScan` for the registry scan in
    progress;
  - `gpSnap`: a history variable holding the readers in a critical section
    when the call began.
- **Reader actions** are one per load or store. A store of a value loaded
  earlier is a separate step, so a reader can publish a counter that the
  writer has since moved past:
  - `OnLoad` and `OnStore`: lines 224–229.
  - `QsLoad` and `QsStore`: 190–196.
  - `OffStore`: 207–213.
  - `ReadLock` and `ReadUnlock`: 167–181.
  - `WakeCheck`, `WakeFutex`, `WakeSet` and `WakeCall`: the four steps of
    `wake_up_gp`, 139–150. `WakeCall` releases a writer asleep in
    FUTEX_WAIT.
- **Writer actions** are `SyncStart`, `Advance`, `LoopTop`, `ScanOne`,
  `ScanEnd` and `WaitGp`. They are modelled from the protocol the header
  implies, marked spec_modelled in the map:
  - `Phases` and `Attempts` (`RCU_QS_ACTIVE_ATTEMPTS`, from the constant
    `ActiveAttempts[build]`) depend on the build.
  - `Phases = 1` is the 64-bit form: `rcu_gp_ctr += RCU_GP_CTR` and one
    wait.
  - `Phases = 2` is the 32-bit form: two parity flips, each followed by a
    wait. On a 2-bit counter, adding `RCU_GP_CTR` modulo 4 is the same as
    the flip.
  - `WaitGp` sleeps only if `gp_futex` is still −1, as the kernel's
    FUTEX_WAIT checks.
  - A spurious return from FUTEX_WAIT only sends the writer back to the
    loop, which the reader's wake already does. It is not a separate
    action.
- **Refinement:** `Abs == INSTANCE RcuGp WITH inCS <- {readers at "cs"},
  waitFor <- gpSnap, busy <- wpc # "idle"`. `RefinesRcuGp == Abs!Spec` is
  checked as a PROPERTY:
  - `SyncStart` is `Begin`;
  - `ReadLock` and `ReadUnlock` are `Enter` and `Exit`;
  - the last `ScanEnd` is `End`;
  - every other step is a stutter.

### `MCQsbr.tla`

This module gives the per-build constants as functions:

- `BuildWidths`: 2 bits on 32-bit, 3 on 64-bit;
- `BuildAttempts`: 1 scan before sleeping on 32-bit, 2 on 64-bit.

## 3. Runs

| run | cfg | expect | what it shows |
|---|---|---|---|
| core | `core.cfg` | pass | One non-RT default worker, 2 producers, 2 callbacks, 1 reader, spurious futex returns on. `TypeOK`, `RefinesRcuReclaim`, `CallbackRunOnce`, `QlenAtRest`, `NoLostCallback` and `EveryCallbackInvoked` hold. About 64 000 states, 40 s. |
| destroy | `destroy.cfg` | pass | `free_all` racing one producer that makes 2 calls, under callback symmetry. Cpu 0 holds the default worker, which `call_rcu_data_free` refuses, and cpu 1 holds `w1`. `NoUseAfterFree`, `CallbackRunOnce`, `QlenAtRest`, `NoLostCallback` and `QlenOwedBySplice` hold. About 476 000 states, 25 s. |
| fork | `fork.cfg` | pass | One fork cycle with a sleeping default worker and a polling RT worker. `ForkQuiescent`, `BeforeForkReturns` and `EveryCallbackInvoked` hold. |
| fork_child | `fork_child.cfg` | pass | `Warm` workers `w0` (default) and `w1`, spare `w2`, one producer and 2 callbacks, callback symmetry. The Forker forks at any point of the producer's `call_rcu`, and `after_fork_child` frees `w0` and `w1` into `w2`. `CallbackRunOnce` and `NoUseAfterFree` hold. About 785 000 states, 30 s. |
| registry | `registry.cfg` | pass | One `create_all` call, one installer (`create_call_rcu_data` then `set_cpu_call_rcu_data` on cpu -1, 0, 1 or 2) and two `get_call_rcu_data` calls racing the lazy default on 2 cpus, where the array's `malloc` may fail, with 5 interchangeable structures. `TypeOK`, `NoOrphanWorker`, `CreateAllPopulates`, `GetReturnsListed`, `InstallSticks`, `PublishedNeverReplaced` and `AllReturn` hold. About 292 000 states, 90 s. |
| qsbr | `qsbr.cfg` | pass | Both builds, with 2 readers and 2 grace periods. 32-bit has a 2-bit counter and two phases, and sleeps after the first scan. 64-bit has one increment and a 3-bit counter that does not wrap in 2 grace periods, and makes two active scans before sleeping. `TypeOK`, `WakeupPending`, `RefinesRcuGp` and `SyncReturns` hold. About 477 000 states, 100 s. |
| fork_twice | `fork_twice.cfg` | violation | A second `before_fork` returns while the worker runs (`ForkQuiescent`). |
| fork_vs_free | `fork_vs_free.cfg` | violation | `before_fork` never returns when it races `free_all` (`BeforeForkReturns`). |
| free_shared | `free_shared.cfg` | violation | A worker on two cpus is freed twice (`NoUseAfterFree`). |
| fork_child_dummy | `fork_child_dummy.cfg` | violation | A cold worker has not drained its dummy when the process forks. The new default worker invokes it (`CallbackRunOnce`). |
| fork_child_inflight | `fork_child_inflight.cfg` | violation | A producer is frozen between the tail xchg and the link. `after_fork_child` never returns (`ChildReturns`). |
| old_free | `old_free.cfg` | violation | The older variant (`MCCallRcuOld`). `free_all` evicts `w1` while a producer enqueues on it. The splice then makes `default_call_rcu_data` a node address and adds the qlen through it (`CrdpLive`). About 430 states. |

### The properties

- **`RefinesRcuReclaim`:** the engine implements `RcuReclaim`. A callback
  frees only a queued object, and only while no reader holds it. No
  other step changes an object's status. The invariant `GraceSafety` (no
  reader dereferences a freed object) follows from it and is no longer
  checked on its own.
- **`CallbackRunOnce`:** a callback runs at most once and a dummy node
  never runs. Dropping the dummy test at line 274 breaks it.
- **`NoUseAfterFree`:**
  - no running thread is inside an enqueue or a wake on a freed crdp;
  - neither the Destroyer nor the Forker runs `call_rcu_data_free` on a
    freed crdp;
  - a freed worker's thread has exited or does not exist (fork child);
  - no running worker invokes a dummy node that lives inside a freed crdp.
- **`ChildReturns`:** `call_rcu_after_fork_child`, once past its unlock,
  returns.
- **`QlenOwedBySplice`:** a live worker's `qlen`, plus what splices at
  `f_qlen` still owe it, is never negative. `call_rcu` holds
  `rcu_read_lock` from the enqueue to its `uatomic_inc`, and the batch's
  grace period waits for it, so its callbacks are counted before the
  worker subtracts them. `call_rcu_data_free` links the evicted batch
  (line 668) before adding its `qlen` (669), outside any read-side
  section. The default worker can therefore subtract those callbacks
  first, and the unsigned `qlen` wraps below zero for a moment. A plain
  `qlen >= 0` holds in `core` and fails in `destroy` on exactly this
  trace.
- **`QlenAtRest`:** for each listed worker with no drain, enqueue or
  splice in flight, `qlen` equals the number of callbacks reachable from
  its head. The reachable set is computed by the recursive `Chain` walk.
- **`EveryCallbackInvoked`:** every queued callback is eventually freed.
- **`NoLostCallback`:** every queued callback is reachable from a holder:
  - the head of a live worker;
  - a producer's node that is not yet linked;
  - a worker's detached batch;
  - the batch `call_rcu_data_free` is splicing.

  It is a safety form of the promise that nothing is lost across the
  two-step enqueue and the splice. The walk's wait for a NULL `next`
  (line 271) is never needed for `call_rcu`'s own enqueues. `call_rcu`
  holds `rcu_read_lock` from the tail xchg to the link, so the batch's
  grace period waits for every producer still linking into it. Without
  the wait, `NoLostCallback` still holds in `core`. The wait exists for
  `call_rcu_data_free`'s splice, whose link (668) is made outside any
  read-side section. Without the wait, `destroy` loses callbacks. It replaces the liveness run over `free_all` that was too large
  to merge with `destroy`.
- **`CrdpLive`** (CallRcuOld): every `call_rcu_data` pointer a thread is
  about to dereference names a live `call_rcu_data`:
  - a producer's crdp from `get_call_rcu_data` through its wake;
  - the crdp given to `call_rcu_data_free`;
  - `default_call_rcu_data` when the splice adds to its `qlen`;
  - and no worker thread runs on a freed structure.

  The comment at 401–403 ("we never free call_rcu_data structures")
  rests on this.
- **`BeforeForkReturns`:** `before_fork`, once it starts waiting, reaches
  fork.
- **`ForkQuiescent`:** when `before_fork` returns, every listed worker is
  at its pause loop and unregistered.

- **`NoOrphanWorker`** (registry): every listed worker is the default, in
  a per-CPU slot, or held by the `create_all` or installer thread that
  just created it.
- **`PublishedNeverReplaced`** (registry, action property): the default
  pointer, the array pointer and a populated slot never change to another
  worker.
- **`CreateAllPopulates`** (registry): a 0 return from `create_all` means
  every cpu has a worker.
- **`GetReturnsListed`** (registry): `get_call_rcu_data` returns a listed
  worker, never NULL and never a loser being freed.
- **`InstallSticks`** (registry): when `set_cpu_call_rcu_data` returns 0
  to the installer, its worker is in a slot, and stays there whatever
  `create_all` does to the same slot afterwards.
- **`AllReturn`** (registry): every call returns, including each EEXIST
  loser's `call_rcu_data_free`.

- **`RefinesRcuGp`** (Qsbr): `synchronize_rcu` returns only after every
  reader in a critical section at its start has left it. This is the
  refinement of `RcuGp`.
- **`WakeupPending`** (Qsbr): while the writer sleeps on `gp_futex`, some
  reader still has `waiting` set or is inside `wake_up_gp` past clearing
  it.
- **`SyncReturns`** (Qsbr): every `synchronize_rcu` returns.

Every property of a passing run has a mutant in `PROJECT.json`, defined
next to the action it changes, that TLC shows violating it:

- `NapInc`: `uatomic_inc` in place of `uatomic_dec`.
- `DrainXchgNoGp` (core, `RefinesRcuReclaim`): no `synchronize_rcu`.
- `InvokeNextInvokesDummy`: no dummy test.
- `InvokeNextCountsDummy`: the dummy is counted in `cbcount`.
- `WakeSetNoWake`: no `FUTEX_WAKE`.
- `FreeAllNoGp`: no grace period in `free_all`.
- `FreeQlenNoAdd`: the qlen transfer is dropped.
- `EnqueueLinkRereadTail` (core, `NoLostCallback`): the enqueue links
  its node after the current `q->tail`, not after the old tail its xchg
  returned. Two overlapping enqueues then cut a node off the queue.
- `InvokeNextCountsDummy` also breaks `QlenOwedBySplice` in `destroy`,
  where the cold default worker's first batch holds its dummy.
- `InvokeNextNoWait` (destroy, `NoLostCallback`): the walk stops at a
  NULL `next` before the batch end instead of waiting at line 271. The
  default worker then ends its batch while the splice's link is still
  pending, and the spliced callbacks fall off every queue.
- `ForkNoPauseWait`: `before_fork` does not wait for PAUSED.
- `NoPauseTest`: the worker never tests PAUSE.
- `ForkParentKeepsPause`: `after_fork_parent` does not clear PAUSE.
- `ChildFreeNextUnsafe` (fork_child, `NoUseAfterFree`): the child's list
  walk also reaches a worker already freed.
- `CaFreeDelDoubleStep` (registry, `TypeOK`): the EEXIST path advances
  the loop index and the `for` advances it again, so the index runs past
  `maxcpus`.
- `CaSetNoFree` (registry, `NoOrphanWorker`): `-EEXIST` is taken as done
  and the losing worker is left running.
- `CaSetNoExistCheck` (`PublishedNeverReplaced`): `set_cpu_call_rcu_data`
  without the EEXIST test.
- `CaLoopOffByOne` (`CreateAllPopulates`): the loop stops one cpu short.
- `GetNoNullCheck` (`GetReturnsListed`): `get_call_rcu_data` returns the
  slot's value without the NULL test.
- `CaSetNoStop` (registry, `AllReturn`): `call_rcu_data_free` polls
  for STOPPED without setting STOP.
- `GdCheckNoRecheck` (registry, `PublishedNeverReplaced`; it breaks
  `NoOrphanWorker` too): `get_default_call_rcu_data` creates a default
  without testing it again under the mutex, so the second getter replaces
  the first one's default.
- `SetCpuResultOffByOne` (registry, `InstallSticks`): the range test is
  written `maxcpus < cpu`, so `cpu = maxcpus` passes. The write lands
  past the array, yet the call returns 0.
- `LoopTopUncapped` (Qsbr, `TypeOK`): `wait_loops` grows without the
  `RCU_QS_ACTIVE_ATTEMPTS` cap.
- `LoopTopNoWaiting` (`WakeupPending`): `gp_futex` is armed but no
  `waiting` flag is set.
- `ScanEndOnePhase` (qsbr, `RefinesRcuGp`): the 32-bit writer returns
  after one parity flip. A reader that loaded the counter before the
  previous grace period publishes it after the counter has wrapped back,
  and is taken as quiescent inside its critical section.
- `AdvanceNoUpdate` (qsbr, `RefinesRcuGp`): the counter is not
  advanced.
- `WaitGpAlwaysSleeps` (`SyncReturns`): FUTEX_WAIT without the check that
  `gp_futex` is still −1. The reader's wake has already happened, so it
  is lost.

### Findings

1. **PAUSED is never cleared** (line 256 sets it; `after_fork_parent`,
   749–756, clears only PAUSE). From the second fork on, the wait at
   738–741 passes at once. `before_fork` then returns with the worker still
   draining and registered as an RCU reader, against the comment at
   722–725. Run `fork_twice`.
2. **A fork racing `free_all` deadlocks.** `call_rcu_data_free` has stopped
   `w1`, whose thread exited with STOPPED and never PAUSED. It then blocks
   on `call_rcu_mutex` at line 674 to unlist `w1`. `before_fork` took the
   mutex first and polls forever for `w1`'s PAUSED. Run `fork_vs_free`.
3. **A worker on two cpus is freed twice.** `set_cpu_call_rcu_data`
   refuses only an occupied slot, so one crdp may sit in several slots.
   `free_all` copies every slot into `crdp[]` and frees each entry. The
   second `call_rcu_data_free` reads the flags and queue of freed memory,
   unlinks it again and frees it again. Run `free_shared`.
4. **The fork child invokes a foreign dummy.** A worker whose thread has
   not yet drained its queue still holds its own dummy at the head.
   `after_fork_child` marks it STOPPED, and `call_rcu_data_free` splices
   the whole queue, dummy included, onto the new default (657–668). The
   default's walk skips only its own dummy (274), so it calls the foreign
   dummy's zeroed `func` from inside a crdp freed at 678. Run
   `fork_child_dummy`. This is reached when the process forks soon after
   the first `call_rcu` created the worker.
5. **A fork during an enqueue hangs the child.** `before_fork` pauses
   workers but not producers. A producer frozen after its tail xchg and
   before its link leaves the queue's last link NULL for good. The splice
   polls at 658–659 for a head that never appears, so
   `call_rcu_after_fork_child` never returns. Run `fork_child_inflight`.
   A producer frozen between the link and `qlen++` (615) instead leaves
   the new default's `qlen` one short. The worker's subtraction at 283
   then wraps it. `fork_child` therefore does not check `QlenAtRest`.
6. **The older variant corrupts `default_call_rcu_data`** (`part_000`).
   Its `call_rcu` reads the per-CPU crdp with no read-side lock (548).
   `free_all` NULLs the slot, stops the worker and calls
   `call_rcu_data_free` with no grace period (617–618). The producer's
   enqueue lands on the stopped worker, so the queue is non-empty and is
   spliced. The splice's `uatomic_xchg(&default_call_rcu_data, cbs_tail)`
   (594) stores the address of the last node's `next` field into the
   default pointer. `*cbs_endprev = cbs` overwrites the old default's
   head, while its tail still says it is empty, so the spliced callback
   is out of every walk. The `qlen` add at 596 then writes through the
   node pointer. Run `old_free`.

### Bounds and why they are enough

- **Callbacks:** every callback is used once.
  - Two callbacks and two producers are enough for two enqueues racing each
    other and a drain.
  - They also allow a callback enqueued while a batch is in its grace
    period, and a callback landing between a worker's last drain and its
    STOP check (the case that makes the splice non-empty).
- **Teardown:** `destroy` has one producer making two calls. Its
  `call_rcu` can hold a per-CPU crdp across the slot teardown, and its
  enqueue can race the splice's xchg on the default's tail; a second
  producer only adds interleavings `core` already checks. `destroy` has
  no reader, because readers are needed only for the callbacks' grace
  period, which `core` checks: with one reader the run grows fourfold.
- **Readers:** a single reader is enough for the grace-period interleavings.
- **Spurious:** spurious wakeups are checked in `core`. The other runs turn
  them off to keep the state space small. The futex clamp keeps the value
  set finite either way.
- **Workers:**
  - two workers give a per-CPU worker and the default that receives the
    splice;
  - an RT worker exercises the RT branches of the wake and sleep paths;
  - cpu 0 holding the default exercises `call_rcu_data_free`'s refusal
    path.
- **Forks:** `ForkRounds = 2` is the smallest bound that shows the stale
  PAUSED.
- **Fork child:** one spare worker is the one new default the child
  creates. Two parent workers, one of them the old default, make the walk
  free more than one worker and splice onto a default that is not the
  worker being freed. One producer, with the fork able to fall between
  any two of its steps, covers every point at which `fork()` can freeze an
  enqueue. The Forker is the one thread that runs in the child.
- **Registry:** one `create_all` thread and one installer on 2 cpus are
  the smallest case of the EEXIST race on one slot while the other slot
  is still empty. Either side can lose it, so both EEXIST-and-free paths
  run. The installer's cpu ranges over `-1 .. 2`, which covers each CPU
  and one out-of-range value on each side. Whichever of the two calls
  `alloc_cpu_call_rcu_data` first may see the array's `malloc` fail.
  Five structures cover the most that can be live at once: two per-CPU
  workers, the default, and the two unpublished workers. `malloc` can
  reuse a freed one. Two getters race the slot writes and each other:
  both can read a NULL default without the mutex, so the second test of
  `get_default_call_rcu_data` under the mutex is what keeps one default. A second `create_all` thread or a second installer takes the
  state space past a million states and out of the time budget. The
  installer stands in for the second `create_all` because it races on
  the same `set_cpu_call_rcu_data`.
- **Deadlock checking:**
  - `destroy`, `free_shared` and `old_free` turn it off: with no
    reader the whole system really stops once the work is done.
  - `fork` turns it off because the pause handshake consists of poll loops,
    written as guards. A state in which they all wait is a livelock, which
    the liveness properties judge.
  - `fork_child` turns it off: in the child, the threads `fork()` did not
    copy never move again, and the new default worker sleeps once its
    queue is empty.
  - `registry` turns it off because `call_rcu_data_free`'s poll for
    STOPPED is a guard. `AllReturn` judges that poll, and it also says
    every thread reaches its return. `Terminated` is the stutter after
    that.

- **Older variant:** two workers (the default and one per-CPU worker),
  one producer and one callback. This is the smallest case where an
  enqueue falls between the eviction and the splice. Warm workers start
  with empty queues, as they are once past their first drain.
- **QSBR:**
  - Two readers let one be scanned quiescent while the other is not.
  - Two grace periods on a 2-bit counter make the counter wrap back to a
    value a delayed reader still holds. That is the case the 32-bit two
    phases exist for, and `ScanEndOnePhase` shows it is reached.
  - A 3-bit counter with `MaxGp = 2` never wraps, as a 64-bit one does not
    in practice.
  - `ActiveAttempts` 1 (32-bit) and 2 (64-bit) cover sleeping at once and spinning before
    sleeping.

### Fairness

Weak fairness applies to each worker's step relation, each producer's,
the Destroyer's, the Forker's and each reader's unlock. This is the
scheduler's guarantee that a runnable thread eventually runs. Every wait
in the code is a poll or a futex wait that returns once its condition
holds.

In the fork child, a frozen thread's fairness is vacuous: its steps are
disabled by `Runs`. `CallRcuOld` assumes the same fairness as `CallRcu`;
its only run checks a safety property.

In `CallRcuRegistry`, weak fairness applies to each thread's steps and
to each worker's STOP answer. `call_rcu_mutex` is not fair. But each
thread takes it a bounded number of times, so a waiting thread ends up
the only one asking, and the lock stays free until it takes it.

There is no fairness on:

- `CallRcu`, `ReadLock` and `ForkLock`: the program need not call them;
- `FutexSpurious`: the kernel need not produce one.

In `Qsbr`:

- weak fairness applies to the writer's steps after `SyncStart` and to
  each reader's stores, unlock and `wake_up_gp` steps;
- strong fairness applies to each reader's announcement, `QsLoad` or
  `OffStore`. This is the QSBR contract: an online reader must
  periodically call `rcu_quiescent_state` or go offline. The
  announcement is disabled while the reader is in a critical section, so
  weak fairness would not express it.
- There is no fairness on `OnLoad`, `ReadLock` or `SyncStart`.

## 4. Not modelled, and the plan

Done so far:

- the engine core, teardown, and both sides of fork (the child with its
  frozen threads);
- the registry: worker creation (`create_call_rcu_data` too), the per-CPU
  array, `set_cpu_call_rcu_data` on every path with a non-NULL worker, the
  EEXIST race and the lazy default;
- the QSBR read side, with the writer it implies and its refinement of
  the abstract grace period;
- the older `urcu-call-rcu.c` engine, teardown and fork handlers
  (`CallRcuOld`);
- the dispatcher `get_call_rcu_data`, with the thread's own crdp;
- the user contract `RcuReclaim`, which the engine refines.

Two hazards of the older variant are modelled but not checked, because
the project keeps to twelve runs and each would need a violation run of
its own:

- `call_rcu_data_free` leaves an empty-queued worker listed and allocated
  (587). A callback a producer then enqueues on it never runs.
- `call_rcu_after_fork_child` loops until one entry is left (662). A
  stale worker with an empty queue, the parent's default included, is
  never unlisted, so the child spins forever.

Not modelled in the QSBR flavour: reader registration and unregistration
(`urcu-qsbr.c`, not in this repository). The readers are registered
throughout.

Next, in order of importance:

1. **Refinement across fork and teardown.** `RefinesRcuReclaim` is checked
   only in `core`. `fork_child` has no readers, so there it would check
   only status transitions. A reader racing the splice in `destroy` would
   push that run past its time budget.
2. **Self-spawning callbacks.** A callback that calls `call_rcu` from the
   worker thread, so the worker is its own producer.

Left out for good:

- **`test_urcu_lfq.c`:** a benchmark driver whose queue code is not here.
- **`arch_x86.h`:** barrier macros, covered by the sequential-consistency
  assumption.
- **CPU affinity and `sysconf`:** these only fix `maxcpus` and thread
  placement.
- **`urcu_die` paths:** they abort the process.
