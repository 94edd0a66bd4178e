------------------------------ MODULE CallRcu ------------------------------
(***************************************************************************)
(* The call_rcu() deferred-reclamation engine of liburcu                   *)
(* (src/urcu-call-rcu-impl.h): a fixed set of call_rcu_data structures,    *)
(* each with its wait-free callback queue, futex, flags, qlen and its      *)
(* call_rcu thread; producer threads calling call_rcu(); RCU readers;      *)
(* free_all_cpu_call_rcu_data() run by a Destroyer thread, which stops     *)
(* each per-CPU worker and splices its leftover callbacks onto the default *)
(* worker; and the parent side of the atfork handlers run by a Forker.     *)
(*                                                                         *)
(* The wait-free queue is kept at the level of its links: every node and   *)
(* every queue head has a "next" slot, tail[w] names the slot the next     *)
(* enqueue links into (&crdp->cbs.tail), Head(w) is &crdp->cbs.head and    *)
(* Dummy(w) is &crdp->cbs.dummy.  Memory is sequentially consistent: each  *)
(* cmm_smp_mb() pairing of the futex protocol is assumed to do its job.    *)
(***************************************************************************)
EXTENDS Integers, FiniteSets

CONSTANTS
  Workers,     \* call_rcu_data structures whose thread is running
  Default,     \* default_call_rcu_data
  RTWorkers,   \* the workers created with URCU_CALL_RCU_RT
  PerCpu,      \* per_cpu_call_rcu_data: cpu -> worker or NULL, torn down by
               \* the Destroyer (a worker may sit in several slots)
  Producers,   \* threads that call call_rcu()
  Readers,     \* RCU read-side threads dereferencing the reclaimed objects
  Callbacks,   \* rcu_head nodes, one per object handed to call_rcu()
  Destroyer,   \* the thread running free_all_cpu_call_rcu_data()
  Forker,      \* the thread running call_rcu_before_fork/after_fork_parent
  ForkRounds,  \* how many times the Forker forks
  Spurious,    \* whether FUTEX_WAIT may return without a FUTEX_WAKE
  Spare,       \* call_rcu_data the fork child may create as its new default
  Warm,        \* whether the workers start past their first, empty drain
  ThreadCrdp,  \* producer -> the crdp it may give set_thread_call_rcu_data()
  NULL

ASSUME /\ Default \in Workers
       /\ RTWorkers \subseteq Workers \ {Default}
       /\ PerCpu \in [DOMAIN PerCpu -> Workers \cup {NULL}]
       /\ DOMAIN PerCpu \subseteq Nat
       /\ ForkRounds \in Nat
       /\ Spurious \in BOOLEAN
       /\ Spare \subseteq Workers \ ({Default} \cup RTWorkers)
       /\ \A c \in DOMAIN PerCpu : PerCpu[c] \notin Spare
       /\ Warm \in BOOLEAN
       /\ ThreadCrdp \in [Producers -> (Workers \ Spare) \cup {NULL}]

Cpus == DOMAIN PerCpu
UsedCpus == {c \in Cpus : PerCpu[c] # NULL}

Threads == Producers \cup {Destroyer, Forker}
Freers == {Destroyer, Forker}          \* callers of call_rcu_data_free()
GpCallers == Workers \cup {Destroyer}   \* callers of synchronize_rcu()

Head(w)  == <<"head", w>>
Dummy(w) == <<"dummy", w>>
Nodes == Callbacks \cup {Dummy(w) : w \in Workers}
Slots == Nodes \cup {Head(w) : w \in Workers}

VARIABLES
  next,        \* next[s]: the node linked after slot s, or NULL
  tail,        \* tail[w]: crdp->cbs.tail, the last slot of w's queue
  flags,       \* flags[w] \subseteq {"RT","STOP","STOPPED","PAUSE","PAUSED"}
  futex,       \* futex[w]: 0, -1, or -2 standing for every value below -1
  qlen,        \* qlen[w], as a mathematical integer
  registered,  \* registered[w]: w's thread is a registered RCU reader
  wpc,         \* control point of w's call_rcu thread
  cursor,      \* cbs: the next node of the batch being invoked
  cbsTail,     \* cbs_tail: the last slot of the batch
  cbcount,     \* cbcount
  pc,          \* control point of each producer, the Destroyer and the Forker
  tgt,         \* the call_rcu_data a thread is using (crdp)
  ret,         \* where a thread goes back to after wake_call_rcu_thread()
  pnode,       \* the rcu_head a producer enqueues
  pold,        \* the slot a producer's enqueue swapped out of the tail
  tls,         \* tls[p]: URCU_TLS(thread_call_rcu_data) of producer p
  inList,      \* call_rcu_data_list
  freed,       \* call_rcu_data structures passed to free()
  mutex,       \* owner of call_rcu_mutex, or NULL
  defaultW,    \* default_call_rcu_data
  dunpub,      \* cpus whose slot free_all has not yet set to NULL
  dfree,       \* cpus whose crdp[cpu] free_all has not yet freed
  dcur,        \* dcur[t]: the crdp call_rcu_data_free() of t is freeing
  dcbs,        \* call_rcu_data_free: cbs
  dtail,       \* call_rcu_data_free: cbs_tail
  dprev,       \* call_rcu_data_free: cbs_endprev
  ftodo,       \* workers the Forker's list walk has still to visit
  forks,       \* number of completed before_fork/after_fork_parent rounds
  child,       \* the behaviour follows the child process after fork()
  rin,         \* readers inside a read-side critical section
  holds,       \* holds[r]: the object reader r dereferenced, or NULL
  gpWait,      \* gpWait[g]: readers synchronize_rcu() of g still waits for
  status,      \* status[c]: "linked", "queued" (handed to call_rcu), "freed"
  invokes      \* invokes[n]: how many times n was run as a callback

queueVars  == <<next, tail>>
workerVars == <<flags, futex, qlen, registered, wpc, cursor, cbsTail, cbcount>>
threadVars == <<pc, tgt, ret, pnode, pold>>
regVars    == <<tls, inList, freed, mutex, defaultW>>
destVars   == <<dunpub, dfree, dcur, dcbs, dtail, dprev>>
forkVars   == <<ftodo, forks, child>>
rcuVars    == <<rin, holds, gpWait>>
ghostVars  == <<status, invokes>>
vars == <<queueVars, workerVars, threadVars, regVars, destVars, forkVars,
          rcuVars, ghostVars>>

(* The threads inside rcu_read_lock(): readers, and producers between the  *)
(* rcu_read_lock() and rcu_read_unlock() of call_rcu().  In the fork child *)
(* none of them exists, and rcu_bp_after_fork_child() (urcu-bp.h, 93-100)  *)
(* has pruned them from the RCU registry.                                  *)
InCS == IF child THEN {} ELSE rin \cup {p \in Producers : pc[p] # "idle"}

(* A worker whose thread runs: in the child only the ones created there.   *)
Runs(w) == ~child \/ w \in Spare

(* Cold workers start at the top of call_rcu_thread() with only the dummy  *)
(* queued; warm ones have drained it and sleep, or poll when RT.           *)
Cold(w) == ~Warm \/ w \in Spare

IsRT(w) == "RT" \in flags[w]

(* &crdp->cbs.head == cbs.tail: the queue holds no node, not even dummy.   *)
QueueEmpty(w) == tail[w] = Head(w)

(* uatomic_dec() of the futex, with every value below -1 kept as -2.       *)
FutexDec(v) == IF v <= -1 THEN -2 ELSE v - 1

(* A thread leaving its read-side critical section stops delaying every    *)
(* grace period that was waiting for it.                                   *)
LeaveCS(t) == gpWait' = [g \in GpCallers |-> gpWait[g] \ {t}]

Init ==
  /\ next = [s \in Slots |-> IF s \in {Head(w) : w \in Workers} /\ Cold(s[2])
                              THEN Dummy(s[2]) ELSE NULL]
  /\ tail = [w \in Workers |-> IF Cold(w) THEN Dummy(w) ELSE Head(w)]
  /\ flags = [w \in Workers |-> IF w \in RTWorkers THEN {"RT"} ELSE {}]
  /\ futex = [w \in Workers |-> IF Cold(w) \/ w \in RTWorkers THEN 0 ELSE -1]
  /\ qlen = [w \in Workers |-> 0]
  /\ registered = [w \in Workers |-> ~Cold(w)]
  /\ wpc = [w \in Workers |-> CASE w \in Spare     -> "unborn"
                                [] Cold(w)        -> "start"
                                [] w \in RTWorkers -> "loop"
                                [] OTHER          -> "blocked"]
  /\ cursor = [w \in Workers |-> NULL]
  /\ cbsTail = [w \in Workers |-> NULL]
  /\ cbcount = [w \in Workers |-> 0]
  /\ pc = [t \in Threads |-> CASE t \in Producers -> "idle"
                               [] t = Forker     -> "k_idle"
                               [] UsedCpus = {}  -> "d_done"
                               [] OTHER          -> "d_unpub"]
  /\ tgt = [t \in Threads |-> NULL]
  /\ ret = [t \in Threads |-> NULL]
  /\ pnode = [p \in Producers |-> NULL]
  /\ pold = [p \in Producers |-> NULL]
  /\ tls = [p \in Producers |-> NULL]
  /\ inList = Workers \ Spare
  /\ freed = {}
  /\ mutex = NULL
  /\ defaultW = Default
  /\ dunpub = UsedCpus
  /\ dfree = UsedCpus
  /\ dcur = [t \in Freers |-> NULL]
  /\ dcbs = [t \in Freers |-> NULL]
  /\ dtail = [t \in Freers |-> NULL]
  /\ dprev = [t \in Freers |-> NULL]
  /\ ftodo = {}
  /\ forks = 0
  /\ child = FALSE
  /\ rin = {}
  /\ holds = [r \in Readers |-> NULL]
  /\ gpWait = [g \in GpCallers |-> {}]
  /\ status = [c \in Callbacks |-> "linked"]
  /\ invokes = [n \in Nodes |-> 0]

-----------------------------------------------------------------------------
(***************************************************************************)
(* The call_rcu thread of worker w: call_rcu_thread().                     *)
(***************************************************************************)
Goto(w, l) == wpc' = [wpc EXCEPT ![w] = l]

workerLocal == <<cursor, cbsTail, cbcount>>
others == <<threadVars, regVars, destVars, forkVars, rcuVars, ghostVars>>

(* Thread start: CPU affinity, rcu_register_thread(), the TLS pointer, and *)
(* outside RT mode the first decrement of the futex.                       *)
Start(w) ==
  /\ wpc[w] = "start"
  /\ registered' = [registered EXCEPT ![w] = TRUE]
  /\ futex' = IF IsRT(w) THEN futex ELSE [futex EXCEPT ![w] = FutexDec(@)]
  /\ Goto(w, "loop")
  /\ UNCHANGED <<queueVars, flags, qlen, workerLocal, others>>

(* PAUSE requested: leave the RCU registry and acknowledge with PAUSED.    *)
PauseAck(w) ==
  /\ wpc[w] = "loop"
  /\ "PAUSE" \in flags[w]
  /\ registered' = [registered EXCEPT ![w] = FALSE]
  /\ flags' = [flags EXCEPT ![w] = @ \cup {"PAUSED"}]
  /\ Goto(w, "paused")
  /\ UNCHANGED <<queueVars, futex, qlen, workerLocal, others>>

(* Mutant: the loop never tests URCU_CALL_RCU_PAUSE.                      *)
NoPauseTest(w) ==
  /\ wpc[w] = "loop"
  /\ Goto(w, "check")
  /\ UNCHANGED <<queueVars, flags, futex, qlen, registered, workerLocal, others>>

NoPause(w) ==
  /\ wpc[w] = "loop"
  /\ "PAUSE" \notin flags[w]
  /\ Goto(w, "check")
  /\ UNCHANGED <<queueVars, flags, futex, qlen, registered, workerLocal, others>>

(* The 1 ms poll until PAUSE is cleared, then rcu_register_thread().       *)
Resume(w) ==
  /\ wpc[w] = "paused"
  /\ "PAUSE" \notin flags[w]
  /\ registered' = [registered EXCEPT ![w] = TRUE]
  /\ Goto(w, "check")
  /\ UNCHANGED <<queueVars, flags, futex, qlen, workerLocal, others>>

CheckQueue(w) ==
  /\ wpc[w] = "check"
  /\ Goto(w, IF QueueEmpty(w) THEN "stopchk" ELSE "head")
  /\ UNCHANGED <<queueVars, flags, futex, qlen, registered, workerLocal, others>>

(* Wait for a non-NULL head, take it as cbs and store NULL into head.      *)
DrainHead(w) ==
  /\ wpc[w] = "head"
  /\ next[Head(w)] # NULL
  /\ cursor' = [cursor EXCEPT ![w] = next[Head(w)]]
  /\ next' = [next EXCEPT ![Head(w)] = NULL]
  /\ Goto(w, "xchg")
  /\ UNCHANGED <<tail, flags, futex, qlen, registered, cbsTail, cbcount, others>>

(* Mutant: synchronize_rcu() is dropped; the batch is invoked at once.     *)
DrainXchgNoGp(w) ==
  /\ wpc[w] = "xchg"
  /\ cbsTail' = [cbsTail EXCEPT ![w] = tail[w]]
  /\ tail' = [tail EXCEPT ![w] = Head(w)]
  /\ cbcount' = [cbcount EXCEPT ![w] = 0]
  /\ Goto(w, "invoke")
  /\ UNCHANGED <<next, flags, futex, qlen, registered, cursor, others>>

(* cbs_tail = uatomic_xchg(&crdp->cbs.tail, &crdp->cbs.head).              *)
DrainXchg(w) ==
  /\ wpc[w] = "xchg"
  /\ cbsTail' = [cbsTail EXCEPT ![w] = tail[w]]
  /\ tail' = [tail EXCEPT ![w] = Head(w)]
  /\ Goto(w, "gp")
  /\ UNCHANGED <<next, flags, futex, qlen, registered, cursor, cbcount, others>>

(* synchronize_rcu(): it starts by noting every thread inside a read-side  *)
(* critical section and returns once each of them has left it.            *)
GpStart(w) ==
  /\ wpc[w] = "gp"
  /\ gpWait' = [gpWait EXCEPT ![w] = InCS]
  /\ Goto(w, "gpwait")
  /\ UNCHANGED <<queueVars, flags, futex, qlen, registered, workerLocal,
                 threadVars, regVars, destVars, forkVars, rin, holds, ghostVars>>

GpEnd(w) ==
  /\ wpc[w] = "gpwait"
  /\ gpWait[w] = {}
  /\ cbcount' = [cbcount EXCEPT ![w] = 0]
  /\ Goto(w, "invoke")
  /\ UNCHANGED <<queueVars, flags, futex, qlen, registered, cursor, cbsTail, others>>

(* Running node n as a callback: rhp->func(rhp) frees the object.          *)
Invoke(n) ==
  /\ invokes' = [invokes EXCEPT ![n] = @ + 1]
  /\ status' = IF n \in Callbacks THEN [status EXCEPT ![n] = "freed"] ELSE status

(* Mutant: the dummy node is counted in cbcount.                           *)
InvokeNextCountsDummy(w) ==
  LET cbs == cursor[w] IN
  /\ wpc[w] = "invoke"
  /\ next[cbs] # NULL \/ cbs = cbsTail[w]
  /\ cursor' = [cursor EXCEPT ![w] = next[cbs]]
  /\ cbcount' = [cbcount EXCEPT ![w] = @ + 1]
  /\ IF cbs = Dummy(w) THEN UNCHANGED ghostVars ELSE Invoke(cbs)
  /\ Goto(w, IF next[cbs] = NULL THEN "qlen" ELSE "invoke")
  /\ UNCHANGED <<queueVars, flags, futex, qlen, registered, cbsTail,
                 threadVars, regVars, destVars, forkVars, rcuVars>>

(* Mutant: the test for the dummy node is dropped.                        *)
InvokeNextInvokesDummy(w) ==
  LET cbs == cursor[w] IN
  /\ wpc[w] = "invoke"
  /\ next[cbs] # NULL \/ cbs = cbsTail[w]
  /\ cursor' = [cursor EXCEPT ![w] = next[cbs]]
  /\ cbcount' = [cbcount EXCEPT ![w] = @ + 1]
  /\ Invoke(cbs)
  /\ Goto(w, IF next[cbs] = NULL THEN "qlen" ELSE "invoke")
  /\ UNCHANGED <<queueVars, flags, futex, qlen, registered, cbsTail,
                 threadVars, regVars, destVars, forkVars, rcuVars>>

(* Mutant: the walk does not wait for a NULL next to be linked.            *)
InvokeNextNoWait(w) ==
  LET cbs == cursor[w] IN
  /\ wpc[w] = "invoke"
  /\ cursor' = [cursor EXCEPT ![w] = next[cbs]]
  /\ IF cbs = Dummy(w)
       THEN UNCHANGED <<cbcount, ghostVars>>
       ELSE /\ Invoke(cbs)
            /\ cbcount' = [cbcount EXCEPT ![w] = @ + 1]
  /\ Goto(w, IF next[cbs] = NULL THEN "qlen" ELSE "invoke")
  /\ UNCHANGED <<queueVars, flags, futex, qlen, registered, cbsTail,
                 threadVars, regVars, destVars, forkVars, rcuVars>>

(* One turn of the do/while loop over the batch: wait while cbs->next is   *)
(* NULL and cbs is not the batch end, skip the dummy, else read cbs->next  *)
(* and run the callback.                                                   *)
InvokeNext(w) ==
  LET cbs == cursor[w] IN
  /\ wpc[w] = "invoke"
  /\ next[cbs] # NULL \/ cbs = cbsTail[w]
  /\ cursor' = [cursor EXCEPT ![w] = next[cbs]]
  /\ IF cbs = Dummy(w)
       THEN UNCHANGED <<cbcount, ghostVars>>
       ELSE /\ Invoke(cbs)
            /\ cbcount' = [cbcount EXCEPT ![w] = @ + 1]
  /\ Goto(w, IF next[cbs] = NULL THEN "qlen" ELSE "invoke")
  /\ UNCHANGED <<queueVars, flags, futex, qlen, registered, cbsTail,
                 threadVars, regVars, destVars, forkVars, rcuVars>>

(* uatomic_sub(&crdp->qlen, cbcount).                                      *)
QlenSub(w) ==
  /\ wpc[w] = "qlen"
  /\ qlen' = [qlen EXCEPT ![w] = @ - cbcount[w]]
  /\ Goto(w, "stopchk")
  /\ UNCHANGED <<queueVars, flags, futex, registered, workerLocal, others>>

(* STOP ends the loop; otherwise, offline, the thread sleeps on the futex  *)
(* when not RT and the queue is empty, and else polls for 10 ms and comes  *)
(* back online at the top of the loop.                                     *)
StopCheck(w) ==
  /\ wpc[w] = "stopchk"
  /\ Goto(w, IF "STOP" \in flags[w] THEN "exit"
             ELSE IF ~IsRT(w) /\ QueueEmpty(w) THEN "wait"
             ELSE "loop")
  /\ UNCHANGED <<queueVars, flags, futex, qlen, registered, workerLocal, others>>

(* call_rcu_wait(): FUTEX_WAIT sleeps only if the futex still reads -1.    *)
FutexWait(w) ==
  /\ wpc[w] = "wait"
  /\ Goto(w, IF futex[w] = -1 THEN "blocked" ELSE "napdec")
  /\ UNCHANGED <<queueVars, flags, futex, qlen, registered, workerLocal, others>>

(* FUTEX_WAIT returning without a FUTEX_WAKE (a signal, EINTR).            *)
FutexSpurious(w) ==
  /\ Spurious
  /\ Runs(w)
  /\ wpc[w] = "blocked"
  /\ Goto(w, "napdec")
  /\ UNCHANGED <<queueVars, flags, futex, qlen, registered, workerLocal, others>>

(* Mutant: uatomic_inc() where uatomic_dec() is meant.                     *)
NapInc(w) ==
  /\ wpc[w] = "napdec"
  /\ futex' = [futex EXCEPT ![w] = @ + 1]
  /\ Goto(w, "loop")
  /\ UNCHANGED <<queueVars, flags, qlen, registered, workerLocal, others>>

(* poll(NULL, 0, 10), uatomic_dec(&crdp->futex), rcu_thread_online().      *)
NapDec(w) ==
  /\ wpc[w] = "napdec"
  /\ futex' = [futex EXCEPT ![w] = FutexDec(@)]
  /\ Goto(w, "loop")
  /\ UNCHANGED <<queueVars, flags, qlen, registered, workerLocal, others>>

ExitFutex(w) ==
  /\ wpc[w] = "exit"
  /\ futex' = IF IsRT(w) THEN futex ELSE [futex EXCEPT ![w] = 0]
  /\ Goto(w, "stopped")
  /\ UNCHANGED <<queueVars, flags, qlen, registered, workerLocal, others>>

Stopped(w) ==
  /\ wpc[w] = "stopped"
  /\ flags' = [flags EXCEPT ![w] = @ \cup {"STOPPED"}]
  /\ registered' = [registered EXCEPT ![w] = FALSE]
  /\ Goto(w, "done")
  /\ UNCHANGED <<queueVars, futex, qlen, workerLocal, others>>

WorkerStep(w) ==
  /\ Runs(w)
  /\ \/ Start(w) \/ PauseAck(w) \/ NoPause(w) \/ Resume(w) \/ CheckQueue(w)
     \/ DrainHead(w) \/ DrainXchg(w) \/ GpStart(w) \/ GpEnd(w)
     \/ InvokeNext(w) \/ QlenSub(w) \/ StopCheck(w) \/ FutexWait(w)
     \/ NapDec(w) \/ ExitFutex(w) \/ Stopped(w)

-----------------------------------------------------------------------------
(***************************************************************************)
(* Producers: call_rcu(), and wake_call_rcu_thread() shared by every       *)
(* thread that wakes a worker.                                             *)
(***************************************************************************)
Jump(t, l) == pc' = [pc EXCEPT ![t] = l]

(* Call wake_call_rcu_thread(x) and continue at l.                         *)
CallWake(t, x, l) ==
  /\ tgt' = [tgt EXCEPT ![t] = x]
  /\ ret' = [ret EXCEPT ![t] = l]
  /\ Jump(t, "wake_read")

notQueue == <<workerVars, regVars, destVars, forkVars, rcuVars, ghostVars>>

(* The slot of cpu c as get_cpu_call_rcu_data(c) reads it.                *)
Slot(c) == IF c \in dunpub THEN PerCpu[c] ELSE NULL

(* get_call_rcu_data(): the thread's own crdp, else (maxcpus > 0) the slot *)
(* of the cpu sched_getcpu() returns, any cpu, else the default.           *)
GetCallRcuData(p) ==
  IF tls[p] # NULL THEN {tls[p]}
  ELSE IF Cpus = {} THEN {defaultW}
  ELSE {IF Slot(c) # NULL THEN Slot(c) ELSE defaultW : c \in Cpus}

(* set_thread_call_rcu_data(): a producer between calls installs its own   *)
(* crdp, or NULL to go back to the per-CPU and default ones.               *)
SetThreadCallRcuData(p) ==
  /\ ~child
  /\ pc[p] = "idle"
  /\ \E x \in {ThreadCrdp[p], NULL} \ {tls[p]} : tls' = [tls EXCEPT ![p] = x]
  /\ UNCHANGED <<queueVars, workerVars, threadVars, inList, freed, mutex,
                 defaultW, destVars, forkVars, rcuVars, ghostVars>>

(* The user unlinks object c, then call_rcu(c): initialise the node, enter *)
(* rcu_read_lock() and pick the worker get_call_rcu_data() returns.        *)
CallRcu(p) ==
  /\ ~child
  /\ pc[p] = "idle"
  /\ \E c \in Callbacks, w \in GetCallRcuData(p) :
       /\ status[c] = "linked"
       /\ status' = [status EXCEPT ![c] = "queued"]
       /\ next' = [next EXCEPT ![c] = NULL]
       /\ pnode' = [pnode EXCEPT ![p] = c]
       /\ tgt' = [tgt EXCEPT ![p] = w]
  /\ Jump(p, "enqueue")
  /\ UNCHANGED <<tail, workerVars, ret, pold, regVars, destVars, forkVars,
                 rcuVars, invokes>>

(* cds_wfq_enqueue(), first half: old_tail = xchg(&q->tail, &node->next).  *)
EnqueueXchg(p) ==
  LET w == tgt[p] IN
  /\ pc[p] = "enqueue"
  /\ pold' = [pold EXCEPT ![p] = tail[w]]
  /\ tail' = [tail EXCEPT ![w] = pnode[p]]
  /\ Jump(p, "link")
  /\ UNCHANGED <<next, notQueue, tgt, ret, pnode>>

(* Mutant: the link re-reads q->tail instead of using xchg's result.      *)
EnqueueLinkRereadTail(p) ==
  /\ pc[p] = "link"
  /\ next' = [next EXCEPT ![tail[tgt[p]]] = pnode[p]]
  /\ Jump(p, "qlen")
  /\ UNCHANGED <<tail, notQueue, tgt, ret, pnode, pold>>

(* cds_wfq_enqueue(), second half: *old_tail = node.                       *)
EnqueueLink(p) ==
  /\ pc[p] = "link"
  /\ next' = [next EXCEPT ![pold[p]] = pnode[p]]
  /\ Jump(p, "qlen")
  /\ UNCHANGED <<tail, notQueue, tgt, ret, pnode, pold>>

(* uatomic_inc(&crdp->qlen), then wake_call_rcu_thread(crdp).              *)
QlenInc(p) ==
  /\ pc[p] = "qlen"
  /\ qlen' = [qlen EXCEPT ![tgt[p]] = @ + 1]
  /\ CallWake(p, tgt[p], "unlock")
  /\ UNCHANGED <<queueVars, flags, futex, registered, wpc, cursor, cbsTail,
                 cbcount, pnode, pold, regVars, destVars, forkVars, rcuVars,
                 ghostVars>>

CallRcuUnlock(p) ==
  /\ pc[p] = "unlock"
  /\ LeaveCS(p)
  /\ Jump(p, "idle")
  /\ UNCHANGED <<queueVars, workerVars, tgt, ret, pnode, pold, regVars,
                 destVars, forkVars, rin, holds, ghostVars>>

(* wake_call_rcu_thread(): nothing for an RT worker; else call_rcu_wake_up *)
(* reads the futex after a full barrier and, if it is -1, sets it to 0     *)
(* and issues FUTEX_WAKE.                                                  *)
WakeRead(t) ==
  LET x == tgt[t] IN
  /\ pc[t] = "wake_read"
  /\ Jump(t, IF IsRT(x) \/ futex[x] # -1 THEN ret[t] ELSE "wake_set")
  /\ UNCHANGED <<queueVars, workerVars, tgt, ret, pnode, pold, regVars,
                 destVars, forkVars, rcuVars, ghostVars>>

(* Mutant: the futex is reset to 0 but FUTEX_WAKE is never issued.         *)
WakeSetNoWake(t) ==
  /\ pc[t] = "wake_set"
  /\ futex' = [futex EXCEPT ![tgt[t]] = 0]
  /\ Jump(t, ret[t])
  /\ UNCHANGED <<queueVars, flags, qlen, registered, wpc, workerLocal, tgt,
                 ret, pnode, pold, regVars, destVars, forkVars, rcuVars,
                 ghostVars>>

WakeSet(t) ==
  /\ pc[t] = "wake_set"
  /\ futex' = [futex EXCEPT ![tgt[t]] = 0]
  /\ Jump(t, "wake_call")
  /\ UNCHANGED <<queueVars, flags, qlen, registered, wpc, workerLocal, tgt,
                 ret, pnode, pold, regVars, destVars, forkVars, rcuVars,
                 ghostVars>>

(* FUTEX_WAKE of one waiter: the worker, if it sleeps in FUTEX_WAIT.       *)
WakeCall(t) ==
  LET x == tgt[t] IN
  /\ pc[t] = "wake_call"
  /\ wpc' = IF wpc[x] = "blocked" THEN [wpc EXCEPT ![x] = "napdec"] ELSE wpc
  /\ Jump(t, ret[t])
  /\ UNCHANGED <<queueVars, flags, futex, qlen, registered, workerLocal, tgt,
                 ret, pnode, pold, regVars, destVars, forkVars, rcuVars,
                 ghostVars>>

Wake(t) == WakeRead(t) \/ WakeSet(t) \/ WakeCall(t)

ProducerStep(p) ==
  /\ ~child
  /\ EnqueueXchg(p) \/ EnqueueLink(p) \/ QlenInc(p) \/ CallRcuUnlock(p) \/ Wake(p)

-----------------------------------------------------------------------------
(***************************************************************************)
(* The Destroyer: free_all_cpu_call_rcu_data(), which NULLs every per-CPU  *)
(* slot, waits a grace period and calls call_rcu_data_free() on each.      *)
(***************************************************************************)
D == Destroyer

notDest == <<workerVars, tgt, ret, pnode, pold, forkVars, rcuVars, ghostVars>>

(* The lowest cpu index of a set: free_all's loops go from 0 to maxcpus-1. *)
FirstCpu(S) == CHOOSE c \in S : \A d \in S : c <= d

(* First loop of free_all: crdp[cpu] = get_cpu_call_rcu_data(cpu), then    *)
(* set_cpu_call_rcu_data(cpu, NULL) under call_rcu_mutex (NULL slots are   *)
(* skipped).  A cpu out of dunpub has a NULL slot for get_call_rcu_data().*)
UnpublishCpu ==
  /\ pc[D] = "d_unpub"
  /\ mutex = NULL
  /\ dunpub # {}
  /\ dunpub' = dunpub \ {FirstCpu(dunpub)}
  /\ UNCHANGED <<defaultW, queueVars, workerVars, threadVars, tls, inList, freed, mutex,
                 dfree, dcur, dcbs, dtail, dprev, forkVars, rcuVars, ghostVars>>

(* Mutant: no synchronize_rcu() between NULLing the slots and freeing.     *)
FreeAllNoGp ==
  /\ pc[D] = "d_unpub"
  /\ dunpub = {}
  /\ Jump(D, "d_free")
  /\ UNCHANGED <<queueVars, workerVars, tgt, ret, pnode, pold, regVars,
                 destVars, forkVars, rcuVars, ghostVars>>

FreeAllGpStart ==
  /\ pc[D] = "d_unpub"
  /\ dunpub = {}
  /\ gpWait' = [gpWait EXCEPT ![D] = InCS]
  /\ Jump(D, "d_gpwait")
  /\ UNCHANGED <<queueVars, workerVars, tgt, ret, pnode, pold, regVars,
                 destVars, forkVars, rin, holds, ghostVars>>

FreeAllGpEnd ==
  /\ pc[D] = "d_gpwait"
  /\ gpWait[D] = {}
  /\ Jump(D, "d_free")
  /\ UNCHANGED <<queueVars, notDest, regVars, destVars>>

FreeAllNext ==
  /\ pc[D] = "d_free"
  /\ \/ /\ dfree # {}
        /\ dfree' = dfree \ {FirstCpu(dfree)}
        /\ dcur' = [dcur EXCEPT ![D] = PerCpu[FirstCpu(dfree)]]
        /\ Jump(D, "f_check")
     \/ /\ dfree = {}
        /\ Jump(D, "d_done")
        /\ UNCHANGED <<dfree, dcur>>
  /\ UNCHANGED <<queueVars, notDest, regVars, dunpub, dcbs, dtail, dprev>>

(***************************************************************************)
(* call_rcu_data_free(), called by thread t (the Destroyer from free_all,  *)
(* the Forker from after_fork_child) on dcur[t]; its locals cbs, cbs_tail  *)
(* and cbs_endprev are dcbs[t], dtail[t] and dprev[t].                     *)
(***************************************************************************)
FreeRet(t) == IF t = D THEN "d_free" ELSE "c_free"

(* Refuse default_call_rcu_data; unless STOPPED, set STOP, wake the thread *)
(* and poll for STOPPED.                                                   *)
FreeCheck(t) ==
  LET x == dcur[t] IN
  /\ pc[t] = "f_check"
  /\ \/ /\ x = defaultW
        /\ Jump(t, FreeRet(t))
        /\ UNCHANGED <<flags, tgt, ret>>
     \/ /\ x # defaultW
        /\ IF "STOPPED" \in flags[x]
             THEN /\ Jump(t, "f_splice")
                  /\ UNCHANGED <<flags, tgt, ret>>
             ELSE /\ flags' = [flags EXCEPT ![x] = @ \cup {"STOP"}]
                  /\ CallWake(t, x, "f_stopwait")
  /\ UNCHANGED <<queueVars, futex, qlen, registered, wpc, workerLocal, pnode,
                 pold, regVars, destVars, forkVars, rcuVars, ghostVars>>

FreeStopWait(t) ==
  /\ pc[t] = "f_stopwait"
  /\ "STOPPED" \in flags[dcur[t]]
  /\ Jump(t, "f_splice")
  /\ UNCHANGED <<queueVars, notDest, regVars, destVars>>

FreeSpliceCheck(t) ==
  /\ pc[t] = "f_splice"
  /\ Jump(t, IF QueueEmpty(dcur[t]) THEN "f_unlink" ELSE "f_head")
  /\ UNCHANGED <<queueVars, notDest, regVars, destVars>>

FreeHead(t) ==
  LET h == Head(dcur[t]) IN
  /\ pc[t] = "f_head"
  /\ next[h] # NULL
  /\ dcbs' = [dcbs EXCEPT ![t] = next[h]]
  /\ next' = [next EXCEPT ![h] = NULL]
  /\ Jump(t, "f_xchg")
  /\ UNCHANGED <<tail, notDest, regVars, dunpub, dfree, dcur, dtail, dprev>>

FreeXchg(t) ==
  /\ pc[t] = "f_xchg"
  /\ dtail' = [dtail EXCEPT ![t] = tail[dcur[t]]]
  /\ tail' = [tail EXCEPT ![dcur[t]] = Head(dcur[t])]
  /\ Jump(t, "f_swap")
  /\ UNCHANGED <<next, notDest, regVars, dunpub, dfree, dcur, dcbs, dprev>>

(* get_default_call_rcu_data() (it exists), then                          *)
(* cbs_endprev = uatomic_xchg(&default_call_rcu_data->cbs.tail, cbs_tail). *)
FreeSwap(t) ==
  /\ pc[t] = "f_swap"
  /\ dprev' = [dprev EXCEPT ![t] = tail[defaultW]]
  /\ tail' = [tail EXCEPT ![defaultW] = dtail[t]]
  /\ Jump(t, "f_link")
  /\ UNCHANGED <<next, notDest, regVars, dunpub, dfree, dcur, dcbs, dtail>>

(* store cbs into *cbs_endprev.                                            *)
FreeLink(t) ==
  /\ pc[t] = "f_link"
  /\ next' = [next EXCEPT ![dprev[t]] = dcbs[t]]
  /\ Jump(t, "f_qlen")
  /\ UNCHANGED <<tail, notDest, regVars, destVars>>

(* Mutant: the evicted qlen is not added to the default's.                 *)
FreeQlenNoAdd(t) ==
  /\ pc[t] = "f_qlen"
  /\ CallWake(t, defaultW, "f_unlink")
  /\ UNCHANGED <<queueVars, flags, futex, qlen, registered, wpc, workerLocal,
                 pnode, pold, regVars, destVars, forkVars, rcuVars, ghostVars>>

(* Add the evicted qlen to the default's, then wake the default worker.    *)
FreeQlen(t) ==
  /\ pc[t] = "f_qlen"
  /\ qlen' = [qlen EXCEPT ![defaultW] = @ + qlen[dcur[t]]]
  /\ CallWake(t, defaultW, "f_unlink")
  /\ UNCHANGED <<queueVars, flags, futex, registered, wpc, workerLocal, pnode,
                 pold, regVars, destVars, forkVars, rcuVars, ghostVars>>

(* cds_list_del() under call_rcu_mutex, then free(crdp).                   *)
FreeUnlink(t) ==
  /\ pc[t] = "f_unlink"
  /\ mutex = NULL
  /\ inList' = inList \ {dcur[t]}
  /\ freed' = freed \cup {dcur[t]}
  /\ Jump(t, FreeRet(t))
  /\ UNCHANGED <<queueVars, notDest, tls, mutex, defaultW, destVars>>

CallRcuDataFree(t) ==
  \/ FreeCheck(t) \/ FreeStopWait(t) \/ FreeSpliceCheck(t) \/ FreeHead(t)
  \/ FreeXchg(t) \/ FreeSwap(t) \/ FreeLink(t) \/ FreeQlen(t) \/ FreeUnlink(t)

DestroyerStep ==
  /\ ~child
  /\ \/ UnpublishCpu \/ FreeAllGpStart \/ FreeAllGpEnd \/ FreeAllNext
     \/ Wake(D)

-----------------------------------------------------------------------------
(***************************************************************************)
(* The Forker: call_rcu_before_fork(), fork(), call_rcu_after_fork_parent. *)
(***************************************************************************)
F == Forker

ForkLock ==
  /\ pc[F] = "k_idle"
  /\ forks < ForkRounds
  /\ mutex = NULL
  /\ mutex' = F
  /\ ftodo' = inList
  /\ Jump(F, "k_pause")
  /\ UNCHANGED <<defaultW, child, queueVars, workerVars, tgt, ret, pnode, pold, tls, inList,
                 freed, destVars, forks, rcuVars, ghostVars>>

(* First loop of before_fork: set PAUSE on a listed worker and wake it.    *)
ForkPauseOne ==
  /\ pc[F] = "k_pause"
  /\ \E w \in ftodo :
       /\ ftodo' = ftodo \ {w}
       /\ flags' = [flags EXCEPT ![w] = @ \cup {"PAUSE"}]
       /\ CallWake(F, w, "k_pause")
  /\ UNCHANGED <<child, queueVars, futex, qlen, registered, wpc, workerLocal, pnode,
                 pold, regVars, destVars, forks, rcuVars, ghostVars>>

(* Mutant: the second loop, waiting for PAUSED, is dropped.                *)
ForkNoPauseWait ==
  /\ pc[F] = "k_pause"
  /\ ftodo = {}
  /\ Jump(F, "k_forked")
  /\ UNCHANGED <<queueVars, workerVars, tgt, ret, pnode, pold, regVars,
                 destVars, forkVars, rcuVars, ghostVars>>

(* Second loop: poll until every listed worker shows PAUSED.  PAUSED is    *)
(* never cleared, so waiting for each in turn ends when all show it.       *)
ForkPauseWait ==
  /\ pc[F] = "k_pause"
  /\ ftodo = {}
  /\ \A w \in inList : "PAUSED" \in flags[w]
  /\ Jump(F, "k_forked")
  /\ UNCHANGED <<queueVars, workerVars, tgt, ret, pnode, pold, regVars,
                 destVars, forkVars, rcuVars, ghostVars>>

(* Mutant: after_fork_parent forgets to clear PAUSE.                       *)
ForkParentKeepsPause ==
  /\ pc[F] = "k_forked"
  /\ mutex' = NULL
  /\ forks' = forks + 1
  /\ Jump(F, "k_idle")
  /\ UNCHANGED <<child, defaultW, queueVars, workerVars, tgt, ret, pnode, pold, tls, inList,
                 freed, destVars, ftodo, rcuVars, ghostVars>>

(* after_fork_parent: clear PAUSE on every listed worker, then unlock.     *)
ForkParent ==
  /\ pc[F] = "k_forked"
  /\ flags' = [w \in Workers |-> IF w \in inList THEN flags[w] \ {"PAUSE"}
                                 ELSE flags[w]]
  /\ mutex' = NULL
  /\ forks' = forks + 1
  /\ Jump(F, "k_idle")
  /\ UNCHANGED <<child, defaultW, queueVars, futex, qlen, registered, wpc, workerLocal, tgt, ret,
                 pnode, pold, tls, inList, freed, destVars, ftodo, rcuVars,
                 ghostVars>>

(***************************************************************************)
(* The child side: call_rcu_after_fork_child().  Only the forking thread  *)
(* exists in the child; every other thread stops where fork() found it.   *)
(* The child is explored when a spare call_rcu_data is given for its new  *)
(* default worker.                                                         *)
(***************************************************************************)

(* Release call_rcu_mutex; do nothing more when the list is empty.  No     *)
(* reader survives, so none holds an object or delays a grace period.     *)
ChildUnlock ==
  /\ pc[F] = "k_forked"
  /\ Spare # {}
  /\ child' = TRUE
  /\ mutex' = NULL
  /\ rin' = {}
  /\ holds' = [r \in Readers |-> NULL]
  /\ gpWait' = [g \in GpCallers |-> {}]
  /\ Jump(F, IF inList = {} THEN "c_done" ELSE "c_default")
  /\ UNCHANGED <<queueVars, workerVars, tgt, ret, pnode, pold, tls, inList,
                 freed, defaultW, destVars, ftodo, forks, ghostVars>>

(* default_call_rcu_data = NULL and get_default_call_rcu_data(), which     *)
(* creates a worker and its thread (call_rcu_data_init adds it to the      *)
(* list); then drop maxcpus, the per-CPU array and the thread's override,  *)
(* so only the new default is left for get_call_rcu_data() to return.      *)
(* The list walk that follows starts from the whole list.                  *)
ChildNewDefault ==
  /\ pc[F] = "c_default"
  /\ \E s \in Spare :
       /\ wpc[s] = "unborn"
       /\ defaultW' = s
       /\ inList' = inList \cup {s}
       /\ wpc' = [wpc EXCEPT ![s] = "start"]
       /\ ftodo' = inList \cup {s}
  /\ Jump(F, "c_free")
  /\ UNCHANGED <<queueVars, flags, futex, qlen, registered, workerLocal, tgt,
                 ret, pnode, pold, tls, freed, mutex, destVars, forks, child,
                 rcuVars, ghostVars>>

(* Mutant: cds_list_for_each_entry in place of the _safe walk: the next    *)
(* entry is read from the crdp just freed, which may lead back to it.      *)
ChildFreeNextUnsafe ==
  /\ pc[F] = "c_free"
  /\ \/ /\ ftodo = {}
        /\ Jump(F, "c_done")
        /\ UNCHANGED <<flags, ftodo, dcur>>
     \/ \E w \in ftodo \cup (freed \cap Workers) :
          /\ ftodo' = ftodo \ {w}
          /\ IF w = defaultW
               THEN UNCHANGED <<flags, dcur, pc>>
               ELSE /\ flags' = [flags EXCEPT ![w] = {"STOPPED"}]
                    /\ dcur' = [dcur EXCEPT ![F] = w]
                    /\ Jump(F, "f_check")
  /\ UNCHANGED <<queueVars, futex, qlen, registered, wpc, workerLocal, tgt,
                 ret, pnode, pold, regVars, dunpub, dfree, dcbs, dtail, dprev,
                 forks, child, rcuVars, ghostVars>>

(* cds_list_for_each_entry_safe: skip the new default; mark any other      *)
(* worker STOPPED (its thread does not exist here) and pass it to          *)
(* call_rcu_data_free(), which splices its callbacks onto the default.     *)
ChildFreeNext ==
  /\ pc[F] = "c_free"
  /\ \/ /\ ftodo = {}
        /\ Jump(F, "c_done")
        /\ UNCHANGED <<flags, ftodo, dcur>>
     \/ \E w \in ftodo :
          /\ ftodo' = ftodo \ {w}
          /\ IF w = defaultW
               THEN UNCHANGED <<flags, dcur, pc>>
               ELSE /\ flags' = [flags EXCEPT ![w] = {"STOPPED"}]
                    /\ dcur' = [dcur EXCEPT ![F] = w]
                    /\ Jump(F, "f_check")
  /\ UNCHANGED <<queueVars, futex, qlen, registered, wpc, workerLocal, tgt,
                 ret, pnode, pold, regVars, dunpub, dfree, dcbs, dtail, dprev,
                 forks, child, rcuVars, ghostVars>>

ForkerStep ==
  \/ ForkPauseOne \/ ForkPauseWait \/ ForkParent \/ Wake(F)
  \/ ChildUnlock \/ ChildNewDefault \/ ChildFreeNext

(* call_rcu_data_free() running on the Destroyer (frozen in a fork child) *)
(* or on the Forker.                                                     *)
FreerStep(t) ==
  /\ t = D => ~child
  /\ CallRcuDataFree(t)

-----------------------------------------------------------------------------
(***************************************************************************)
(* RCU readers: a read-side critical section that dereferences one object  *)
(* still reachable from the data structure.                                *)
(***************************************************************************)
ReadLock(r) ==
  /\ ~child
  /\ r \notin rin
  /\ \E o \in {c \in Callbacks : status[c] = "linked"} \cup {NULL} :
       holds' = [holds EXCEPT ![r] = o]
  /\ rin' = rin \cup {r}
  /\ UNCHANGED <<queueVars, workerVars, threadVars, regVars, destVars,
                 forkVars, gpWait, ghostVars>>

ReadUnlock(r) ==
  /\ ~child
  /\ r \in rin
  /\ rin' = rin \ {r}
  /\ holds' = [holds EXCEPT ![r] = NULL]
  /\ LeaveCS(r)
  /\ UNCHANGED <<queueVars, workerVars, threadVars, regVars, destVars,
                 forkVars, ghostVars>>

-----------------------------------------------------------------------------
Next ==
  \/ \E w \in Workers : WorkerStep(w) \/ FutexSpurious(w)
  \/ \E p \in Producers : CallRcu(p) \/ SetThreadCallRcuData(p) \/ ProducerStep(p)
  \/ DestroyerStep
  \/ ForkLock \/ ForkerStep
  \/ \E t \in Freers : FreerStep(t)
  \/ \E r \in Readers : ReadLock(r) \/ ReadUnlock(r)

(* Every thread that has work to do gets to run: the call_rcu threads,     *)
(* producers inside call_rcu(), the Destroyer and the Forker once started, *)
(* and readers, whose critical sections RCU requires to be finite.  No     *)
(* fairness for starting a call_rcu(), a fork or a read-side section, nor  *)
(* for FUTEX_WAIT returning early.                                         *)
Fairness ==
  /\ \A w \in Workers : WF_vars(WorkerStep(w))
  /\ \A p \in Producers : WF_vars(ProducerStep(p))
  /\ WF_vars(DestroyerStep)
  /\ WF_vars(ForkerStep)
  /\ \A t \in Freers : WF_vars(FreerStep(t))
  /\ \A r \in Readers : WF_vars(ReadUnlock(r))

Spec == Init /\ [][Next]_vars /\ Fairness

-----------------------------------------------------------------------------
(***************************************************************************)
(* Properties.                                                             *)
(***************************************************************************)
WorkerPcs == {"unborn", "start", "loop", "paused", "check", "head", "xchg", "gp",
              "gpwait", "invoke", "qlen", "stopchk", "wait", "blocked",
              "napdec", "exit", "stopped", "done"}
ThreadPcs == {"idle", "enqueue", "link", "qlen", "unlock", "wake_read",
              "wake_set", "wake_call", "d_unpub", "d_gpwait", "d_free",
              "d_done", "f_check", "f_stopwait", "f_splice", "f_head",
              "f_xchg", "f_swap", "f_link", "f_qlen", "f_unlink", "k_idle",
              "k_pause", "k_forked", "c_default", "c_free", "c_done"}

TypeOK ==
  /\ next \in [Slots -> Nodes \cup {NULL}]
  /\ tail \in [Workers -> Slots]
  /\ flags \in [Workers -> SUBSET {"RT", "STOP", "STOPPED", "PAUSE", "PAUSED"}]
  /\ futex \in [Workers -> {0, -1, -2}]
  /\ qlen \in [Workers -> Int]
  /\ registered \in [Workers -> BOOLEAN]
  /\ wpc \in [Workers -> WorkerPcs]
  /\ cursor \in [Workers -> Nodes \cup {NULL}]
  /\ cbsTail \in [Workers -> Slots \cup {NULL}]
  /\ cbcount \in [Workers -> Nat]
  /\ pc \in [Threads -> ThreadPcs]
  /\ tgt \in [Threads -> Workers \cup {NULL}]
  /\ pnode \in [Producers -> Callbacks \cup {NULL}]
  /\ pold \in [Producers -> Slots \cup {NULL}]
  /\ tls \in [Producers -> Workers \cup {NULL}] /\ inList \subseteq Workers
  /\ freed \subseteq Workers /\ mutex \in {NULL, F}
  /\ defaultW \in Workers
  /\ dcur \in [Freers -> Workers \cup {NULL}]
  /\ child \in BOOLEAN
  /\ rin \subseteq Readers
  /\ holds \in [Readers -> Callbacks \cup {NULL}]
  /\ gpWait \in [GpCallers -> SUBSET (Readers \cup Producers)]
  /\ status \in [Callbacks -> {"linked", "queued", "freed"}]
  /\ invokes \in [Nodes -> Nat]

(* RCU's promise to readers (spec 8.2): a call_rcu thread never runs the   *)
(* callback of an object some reader still dereferences.  It rests on the *)
(* drain order in call_rcu_thread(): snapshot the queue, synchronize_rcu,  *)
(* then invoke.                                                            *)
GraceSafety ==
  \A r \in Readers : holds[r] # NULL => status[holds[r]] # "freed"

FSE == INSTANCE FiniteSetsExt

(* The qlen that call_rcu_data_free() splices onto w and has yet to add:   *)
(* its uatomic_add() comes after the splice's link store.                  *)
SpliceOwed(w) ==
  FSE!MapThenSumSet(LAMBDA t : qlen[dcur[t]],
                    {t \in Freers : pc[t] = "f_qlen" /\ defaultW = w})

(* qlen (an unsigned long) never wraps below zero except by what a splice  *)
(* still owes: a callback counted by call_rcu()'s uatomic_inc is always    *)
(* counted before the worker subtracts it, because call_rcu() holds        *)
(* rcu_read_lock() across the enqueue and the increment and the batch's    *)
(* grace period waits for it.  call_rcu_data_free() runs outside any read- *)
(* side critical section, so the default worker may run and subtract the   *)
(* spliced callbacks before the uatomic_add() at line 669 lands.           *)
QlenOwedBySplice ==
  \A w \in Workers \ freed : qlen[w] + SpliceOwed(w) >= 0

(* call_rcu() keeps the promise of RcuReclaim: the objects' life cycle,    *)
(* seen through status, rin and holds, moves only by its steps.  Above     *)
(* GraceSafety it says that a callback runs only on a queued object, that  *)
(* a queued object never becomes reachable again, and that every status   *)
(* change and reader step of the engine is one the user contract allows.  *)
Reclaim == INSTANCE RcuReclaim WITH Objects <- Callbacks

RefinesRcuReclaim == Reclaim!Spec

(* Each rcu_head handed to call_rcu() runs at most once, and no queue      *)
(* dummy node is ever run as a callback (spec 8.1 "exactly once"): the     *)
(* head/tail snapshot of the drain and of the splice in                    *)
(* call_rcu_data_free() hands every node to exactly one walker.            *)
CallbackRunOnce ==
  \A n \in Nodes : invokes[n] <= IF n \in Callbacks THEN 1 ELSE 0

FreePcs == {"f_check", "f_stopwait", "f_splice", "f_head", "f_xchg",
            "f_swap", "f_link", "f_qlen", "f_unlink"}

(* No thread touches a call_rcu_data after call_rcu_data_free() freed it:  *)
(* call_rcu() holds rcu_read_lock across its use of crdp;                  *)
(* free_all_cpu_call_rcu_data() waits a grace period between NULLing the   *)
(* per-CPU slots and freeing, and frees each evicted crdp[cpu] once;       *)
(* after_fork_child frees each stale worker once.  Nor does a running      *)
(* call_rcu thread belong to a freed crdp, or walk into the dummy node     *)
(* embedded in one.                                                        *)
NoUseAfterFree ==
  /\ \A t \in Threads :
       /\ ~child \/ t = F
       /\ pc[t] \in {"enqueue", "link", "qlen", "wake_read", "wake_set", "wake_call"}
       => tgt[t] \notin freed
  /\ \A t \in Freers : pc[t] \in FreePcs => dcur[t] \notin freed
  /\ \A w \in freed : wpc[w] = "done" \/ ~Runs(w)
  /\ \A w \in Workers :
       Runs(w) /\ wpc[w] = "invoke" => cursor[w] \notin {Dummy(x) : x \in freed}

(* The nodes reached from slot s by following next links (the set seen    *)
(* stops the walk should a link ever close a cycle).                       *)
RECURSIVE Chain(_, _)
Chain(s, seen) ==
  IF next[s] = NULL \/ next[s] \in seen THEN seen
  ELSE Chain(next[s], seen \cup {next[s]})

QueuedOn(w) == Chain(Head(w), {}) \cap Callbacks

(* No call_rcu(), drain or splice is half-way through on w, and w is not  *)
(* the worker call_rcu_data_free() is tearing down.                        *)
AtRest(w) ==
  /\ wpc[w] \notin {"head", "xchg", "gp", "gpwait", "invoke", "qlen"}
  /\ \A p \in Producers : tgt[p] = w => pc[p] \notin {"enqueue", "link", "qlen"}
  /\ \A t \in Freers :
       pc[t] \in FreePcs \cup {"wake_read", "wake_set", "wake_call"} => w # dcur[t]
  /\ \A t \in Freers :
       pc[t] \in {"f_head", "f_xchg", "f_swap", "f_link", "f_qlen"} => w # defaultW

(* Spec 8.4: once a worker is at rest its qlen counts exactly the          *)
(* callbacks waiting in its queue, across drains, and across the splice    *)
(* that moves an evicted worker's qlen onto the default worker.            *)
QlenAtRest ==
  \A w \in inList : AtRest(w) => qlen[w] = Cardinality(QueuedOn(w))

(* The places a queued callback may be held: the head of a live worker's  *)
(* queue, a producer's node between cds_wfq_node_init() and its link,     *)
(* the batch a call_rcu thread has cut off (cbs, from the head snapshot    *)
(* until the walk ends) and the batch call_rcu_data_free() is splicing.    *)
Holders ==
  {Head(w) : w \in Workers \ freed}
  \cup {pnode[p] : p \in {q \in Producers : pc[q] \in {"enqueue", "link"}}}
  \cup {cursor[w] : w \in {x \in Workers :
                            wpc[x] \in {"xchg", "gp", "gpwait", "invoke"}}}
  \cup {dcbs[t] : t \in {u \in Freers : pc[u] \in {"f_xchg", "f_swap", "f_link"}}}

Held == UNION {Chain(h, {h}) : h \in Holders \ {NULL}}

(* Spec 8.1/8.5: no callback handed to call_rcu() drops out of every      *)
(* queue before it has run.  The two-step enqueue (tail xchg, then link),  *)
(* the worker's head/tail snapshot and call_rcu_data_free()'s splice onto  *)
(* the default's tail each move a chain of nodes from one holder to        *)
(* another; a store in the wrong order, or into the wrong slot, leaves a   *)
(* node no walk will reach.                                                *)
NoLostCallback ==
  \A c \in Callbacks : status[c] = "queued" => c \in Held

(* Spec 8.1/8.5: every callback handed to call_rcu() is eventually run,    *)
(* whoever its worker is: no FUTEX_WAKE is lost against call_rcu_wait(),   *)
(* and call_rcu_data_free() leaves no callback behind.                     *)
EveryCallbackInvoked ==
  \A c \in Callbacks : status[c] = "queued" ~> status[c] = "freed"

(* call_rcu_before_fork() returns: every listed worker acknowledges PAUSE. *)
BeforeForkReturns == pc[F] = "k_pause" ~> pc[F] = "k_forked"

(* Spec 4.5: when call_rcu_before_fork() has returned and fork() runs,     *)
(* every listed call_rcu thread sits in its PAUSE poll, unregistered.      *)
ForkQuiescent ==
  pc[F] = "k_forked" =>
    \A w \in inList : wpc[w] = "paused" /\ ~registered[w]

(* Spec 4.5/8.6: call_rcu_after_fork_child() returns, having handed every  *)
(* stale worker's callbacks to the new default worker.                     *)
ChildReturns == pc[F] = "c_default" ~> pc[F] = "c_done"
=============================================================================
