----------------------------- MODULE CallRcuOld -----------------------------
(***************************************************************************)
(* The older call_rcu() implementation kept in src/unnamed/part_000        *)
(* (urcu-call-rcu.c, lines 1-671).  Its queue, worker loop and futex       *)
(* protocol are those of CallRcu; what differs is checked here:            *)
(*  - call_rcu() takes no rcu_read_lock() around its use of crdp (548);   *)
(*  - the call_rcu thread has no PAUSE handshake and is no RCU reader;     *)
(*  - free_all_cpu_call_rcu_data() calls call_rcu_data_free() right after *)
(*    NULLing each slot, with no grace period in between (617-618);       *)
(*  - call_rcu_data_free() splices and frees only a non-empty queue, and  *)
(*    its splice xchg's default_call_rcu_data itself (594);               *)
(*  - the atfork handlers only take and release call_rcu_mutex, and the   *)
(*    child loops until the list holds one entry (662).                   *)
(* Links are kept as in CallRcu: next[s] for every slot, Head(w) is        *)
(* &crdp->cbs.head, the first word of a call_rcu_data.  No RCU reader is   *)
(* modelled: synchronize_rcu() in the worker waits for no thread here.     *)
(***************************************************************************)
EXTENDS Integers, FiniteSets

CONSTANTS
  Workers,     \* call_rcu_data structures
  Default,     \* default_call_rcu_data at the start
  RTWorkers,   \* workers created with URCU_CALL_RCU_RT
  PerCpu,      \* per_cpu_call_rcu_data at the start: cpu -> worker or NULL
  Producers,   \* threads calling call_rcu()
  Callbacks,   \* rcu_head nodes
  Destroyer,   \* the thread running free_all_cpu_call_rcu_data()
  Forker,      \* the thread running the atfork handlers
  ForkRounds,  \* how many times the Forker forks
  Spare,       \* call_rcu_data a fork child may create as its default
  Warm,        \* whether the workers start past their first drain
  NULL

ASSUME /\ Default \in Workers \ Spare
       /\ RTWorkers \subseteq Workers \ ({Default} \cup Spare)
       /\ DOMAIN PerCpu = 0 .. Cardinality(DOMAIN PerCpu) - 1
       /\ PerCpu \in [DOMAIN PerCpu -> (Workers \ Spare) \cup {NULL}]
       /\ ForkRounds \in Nat
       /\ Warm \in BOOLEAN

Cpus == DOMAIN PerCpu
D == Destroyer
F == Forker
Threads == Producers \cup {D, F}
Freers == {D, F}

Head(w)  == <<"head", w>>
Dummy(w) == <<"dummy", w>>
Nodes == Callbacks \cup {Dummy(w) : w \in Workers}
Slots == Nodes \cup {Head(w) : w \in Workers}

VARIABLES
  next, tail,                         \* the wait-free queues' links
  flags, futex, qlen,                 \* fields of each call_rcu_data
  wpc, cursor, cbsTail, cbcount,      \* each call_rcu thread
  pc, tgt, ret, pnode, pold,          \* the other threads
  percpu,      \* per_cpu_call_rcu_data
  defaultW,    \* default_call_rcu_data: a worker, or whatever was stored
  inList,      \* call_rcu_data_list
  freed,       \* call_rcu_data structures passed to free()
  mutex,       \* owner of call_rcu_mutex, or NULL
  dcpu,        \* free_all's loop index cpu
  dcur, dcbs, dtail, dprev,           \* call_rcu_data_free: crdp and locals
  forks, child,
  status,      \* status[c]: "linked", "queued" (handed to call_rcu), "freed"
  invokes      \* invokes[n]: how many times n ran as a callback

queueVars  == <<next, tail>>
workerVars == <<flags, futex, qlen, wpc, cursor, cbsTail, cbcount>>
threadVars == <<pc, tgt, ret, pnode, pold>>
regVars    == <<percpu, defaultW, inList, freed, mutex>>
freeVars   == <<dcpu, dcur, dcbs, dtail, dprev>>
ghostVars  == <<status, invokes>>
vars == <<queueVars, workerVars, threadVars, regVars, freeVars, forks, child,
          ghostVars>>

Runs(w)  == ~child \/ w \in Spare
Cold(w)  == ~Warm \/ w \in Spare
IsRT(w)  == "RT" \in flags[w]
QueueEmpty(w) == tail[w] = Head(w)
FutexDec(v) == IF v <= -1 THEN -2 ELSE v - 1

(* *p for a pointer p used as a slot: the first word of a call_rcu_data is *)
(* cbs.head, any other pointer here already names a next slot.             *)
Word(p) == IF p \in Workers THEN Head(p) ELSE p

Init ==
  /\ next = [s \in Slots |-> IF s \in {Head(w) : w \in Workers} /\ Cold(s[2])
                              THEN Dummy(s[2]) ELSE NULL]
  /\ tail = [w \in Workers |-> IF Cold(w) THEN Dummy(w) ELSE Head(w)]
  /\ flags = [w \in Workers |-> IF w \in RTWorkers THEN {"RT"} ELSE {}]
  /\ futex = [w \in Workers |-> IF Cold(w) \/ w \in RTWorkers THEN 0 ELSE -1]
  /\ qlen = [w \in Workers |-> 0]
  /\ wpc = [w \in Workers |-> CASE w \in Spare      -> "unborn"
                                [] Cold(w)         -> "start"
                                [] w \in RTWorkers -> "check"
                                [] OTHER           -> "blocked"]
  /\ cursor = [w \in Workers |-> NULL]
  /\ cbsTail = [w \in Workers |-> NULL]
  /\ cbcount = [w \in Workers |-> 0]
  /\ pc = [t \in Threads |-> CASE t \in Producers -> "idle"
                               [] t = F          -> "k_idle"
                               [] OTHER          -> "d_next"]
  /\ tgt = [t \in Threads |-> NULL]
  /\ ret = [t \in Threads |-> NULL]
  /\ pnode = [p \in Producers |-> NULL]
  /\ pold = [p \in Producers |-> NULL]
  /\ percpu = PerCpu
  /\ defaultW = Default
  /\ inList = Workers \ Spare
  /\ freed = {}
  /\ mutex = NULL
  /\ dcpu = 0
  /\ dcur = [t \in Freers |-> NULL]
  /\ dcbs = [t \in Freers |-> NULL]
  /\ dtail = [t \in Freers |-> NULL]
  /\ dprev = [t \in Freers |-> NULL]
  /\ forks = 0
  /\ child = FALSE
  /\ status = [c \in Callbacks |-> "linked"]
  /\ invokes = [n \in Nodes |-> 0]

-----------------------------------------------------------------------------
(***************************************************************************)
(* The call_rcu thread of worker w: call_rcu_thread() (204-277).          *)
(***************************************************************************)
Goto(w, l) == wpc' = [wpc EXCEPT ![w] = l]

workerLocal == <<cursor, cbsTail, cbcount>>
others == <<threadVars, regVars, freeVars, forks, child, ghostVars>>

(* Affinity, the TLS pointer and, outside RT mode, uatomic_dec(futex).    *)
Start(w) ==
  /\ wpc[w] = "start"
  /\ futex' = IF IsRT(w) THEN futex ELSE [futex EXCEPT ![w] = FutexDec(@)]
  /\ Goto(w, "check")
  /\ UNCHANGED <<queueVars, flags, qlen, workerLocal, others>>

CheckQueue(w) ==
  /\ wpc[w] = "check"
  /\ Goto(w, IF QueueEmpty(w) THEN "stopchk" ELSE "head")
  /\ UNCHANGED <<queueVars, flags, futex, qlen, workerLocal, others>>

(* Poll for a non-NULL head, take it as cbs and store NULL into head.      *)
DrainHead(w) ==
  /\ wpc[w] = "head"
  /\ next[Head(w)] # NULL
  /\ cursor' = [cursor EXCEPT ![w] = next[Head(w)]]
  /\ next' = [next EXCEPT ![Head(w)] = NULL]
  /\ Goto(w, "xchg")
  /\ UNCHANGED <<tail, flags, futex, qlen, cbsTail, cbcount, others>>

(* cbs_tail = xchg(&cbs.tail, &cbs.head); synchronize_rcu(), which has no *)
(* reader to wait for in this module; cbcount = 0.                        *)
DrainXchg(w) ==
  /\ wpc[w] = "xchg"
  /\ cbsTail' = [cbsTail EXCEPT ![w] = tail[w]]
  /\ tail' = [tail EXCEPT ![w] = Head(w)]
  /\ cbcount' = [cbcount EXCEPT ![w] = 0]
  /\ Goto(w, "invoke")
  /\ UNCHANGED <<next, flags, futex, qlen, cursor, others>>

(* One turn of the do/while walk: wait while cbs->next is NULL and cbs is  *)
(* not the batch end, skip this worker's dummy, else run the callback.     *)
InvokeNext(w) ==
  LET cbs == cursor[w] IN
  /\ wpc[w] = "invoke"
  /\ next[cbs] # NULL \/ cbs = cbsTail[w]
  /\ cursor' = [cursor EXCEPT ![w] = next[cbs]]
  /\ IF cbs = Dummy(w)
       THEN UNCHANGED <<cbcount, ghostVars>>
       ELSE /\ invokes' = [invokes EXCEPT ![cbs] = @ + 1]
            /\ status' = IF cbs \in Callbacks
                           THEN [status EXCEPT ![cbs] = "freed"] ELSE status
            /\ cbcount' = [cbcount EXCEPT ![w] = @ + 1]
  /\ Goto(w, IF next[cbs] = NULL THEN "qlen" ELSE "invoke")
  /\ UNCHANGED <<queueVars, flags, futex, qlen, cbsTail, threadVars, regVars,
                 freeVars, forks, child>>

QlenSub(w) ==
  /\ wpc[w] = "qlen"
  /\ qlen' = [qlen EXCEPT ![w] = @ - cbcount[w]]
  /\ Goto(w, "stopchk")
  /\ UNCHANGED <<queueVars, flags, futex, workerLocal, others>>

(* STOP ends the loop; else a non-RT thread with an empty queue goes to    *)
(* call_rcu_wait(), and otherwise polls 10 ms and loops.                   *)
StopCheck(w) ==
  /\ wpc[w] = "stopchk"
  /\ Goto(w, IF "STOP" \in flags[w] THEN "exit"
             ELSE IF ~IsRT(w) /\ QueueEmpty(w) THEN "wait"
             ELSE "check")
  /\ UNCHANGED <<queueVars, flags, futex, qlen, workerLocal, others>>

(* call_rcu_wait(): FUTEX_WAIT sleeps only while the futex reads -1.       *)
FutexWait(w) ==
  /\ wpc[w] = "wait"
  /\ Goto(w, IF futex[w] = -1 THEN "blocked" ELSE "napdec")
  /\ UNCHANGED <<queueVars, flags, futex, qlen, workerLocal, others>>

(* poll(NULL, 0, 10), then uatomic_dec(&crdp->futex).                      *)
NapDec(w) ==
  /\ wpc[w] = "napdec"
  /\ futex' = [futex EXCEPT ![w] = FutexDec(@)]
  /\ Goto(w, "check")
  /\ UNCHANGED <<queueVars, flags, qlen, workerLocal, others>>

(* Leaving: futex = 0 outside RT mode, then STOPPED, then return.          *)
ExitFutex(w) ==
  /\ wpc[w] = "exit"
  /\ futex' = IF IsRT(w) THEN futex ELSE [futex EXCEPT ![w] = 0]
  /\ Goto(w, "stopped")
  /\ UNCHANGED <<queueVars, flags, qlen, workerLocal, others>>

Stopped(w) ==
  /\ wpc[w] = "stopped"
  /\ flags' = [flags EXCEPT ![w] = @ \cup {"STOPPED"}]
  /\ Goto(w, "done")
  /\ UNCHANGED <<queueVars, futex, qlen, workerLocal, others>>

WorkerStep(w) ==
  /\ Runs(w)
  /\ \/ Start(w) \/ CheckQueue(w) \/ DrainHead(w) \/ DrainXchg(w)
     \/ InvokeNext(w) \/ QlenSub(w) \/ StopCheck(w) \/ FutexWait(w)
     \/ NapDec(w) \/ ExitFutex(w) \/ Stopped(w)
-----------------------------------------------------------------------------
(***************************************************************************)
(* Producers: call_rcu() (541-552), and wake_call_rcu_thread() (522-526)   *)
(* with call_rcu_wake_up() (191-200) shared by every waking thread.        *)
(***************************************************************************)
Jump(t, l) == pc' = [pc EXCEPT ![t] = l]

CallWake(t, x, l) ==
  /\ tgt' = [tgt EXCEPT ![t] = x]
  /\ ret' = [ret EXCEPT ![t] = l]
  /\ Jump(t, "wake_read")

(* The pointers get_call_rcu_data() may return to a producer, which has    *)
(* no thread_call_rcu_data: per_cpu_call_rcu_data[sched_getcpu()] when it *)
(* is set, else get_default_call_rcu_data(), whose default is non-NULL in *)
(* the parent and is returned as it stands.                                *)
GetCallRcuData ==
  IF Cpus = {} THEN {defaultW}
  ELSE {IF percpu[c] # NULL THEN percpu[c] ELSE defaultW : c \in Cpus}

(* cds_wfq_node_init(), head->func = func, crdp = get_call_rcu_data();     *)
(* no rcu_read_lock() is taken.                                            *)
CallRcu(p) ==
  /\ ~child
  /\ pc[p] = "idle"
  /\ \E c \in Callbacks, x \in GetCallRcuData :
       /\ status[c] = "linked"
       /\ status' = [status EXCEPT ![c] = "queued"]
       /\ next' = [next EXCEPT ![c] = NULL]
       /\ pnode' = [pnode EXCEPT ![p] = c]
       /\ tgt' = [tgt EXCEPT ![p] = x]
  /\ Jump(p, "enqueue")
  /\ UNCHANGED <<tail, workerVars, ret, pold, regVars, freeVars, forks, child,
                 invokes>>

(* cds_wfq_enqueue(): old_tail = xchg(&q->tail, &node->next), then         *)
(* *old_tail = node.  A crdp that is not a call_rcu_data stops the model   *)
(* here: CrdpLive already fails in that state.                             *)
EnqueueXchg(p) ==
  LET w == tgt[p] IN
  /\ pc[p] = "enqueue"
  /\ w \in Workers
  /\ pold' = [pold EXCEPT ![p] = tail[w]]
  /\ tail' = [tail EXCEPT ![w] = pnode[p]]
  /\ Jump(p, "link")
  /\ UNCHANGED <<next, workerVars, tgt, ret, pnode, regVars, freeVars, forks,
                 child, ghostVars>>

EnqueueLink(p) ==
  /\ pc[p] = "link"
  /\ next' = [next EXCEPT ![pold[p]] = pnode[p]]
  /\ Jump(p, "qlen")
  /\ UNCHANGED <<tail, workerVars, tgt, ret, pnode, pold, regVars, freeVars,
                 forks, child, ghostVars>>

(* uatomic_inc(&crdp->qlen), then wake_call_rcu_thread(crdp); return.     *)
QlenInc(p) ==
  /\ pc[p] = "qlen"
  /\ qlen' = [qlen EXCEPT ![tgt[p]] = @ + 1]
  /\ CallWake(p, tgt[p], "idle")
  /\ UNCHANGED <<queueVars, flags, futex, wpc, workerLocal, pnode, pold,
                 regVars, freeVars, forks, child, ghostVars>>

(* Nothing for an RT worker; else, if the futex reads -1, set it to 0 and  *)
(* FUTEX_WAKE the worker if it sleeps.                                     *)
WakeRead(t) ==
  LET x == tgt[t] IN
  /\ pc[t] = "wake_read"
  /\ Jump(t, IF IsRT(x) \/ futex[x] # -1 THEN ret[t] ELSE "wake_set")
  /\ UNCHANGED <<queueVars, workerVars, tgt, ret, pnode, pold, regVars,
                 freeVars, forks, child, ghostVars>>

WakeSet(t) ==
  /\ pc[t] = "wake_set"
  /\ futex' = [futex EXCEPT ![tgt[t]] = 0]
  /\ Jump(t, "wake_call")
  /\ UNCHANGED <<queueVars, flags, qlen, wpc, workerLocal, tgt, ret, pnode,
                 pold, regVars, freeVars, forks, child, ghostVars>>

WakeCall(t) ==
  LET x == tgt[t] IN
  /\ pc[t] = "wake_call"
  /\ wpc' = IF wpc[x] = "blocked" THEN [wpc EXCEPT ![x] = "napdec"] ELSE wpc
  /\ Jump(t, ret[t])
  /\ UNCHANGED <<queueVars, flags, futex, qlen, workerLocal, tgt, ret, pnode,
                 pold, regVars, freeVars, forks, child, ghostVars>>

Wake(t) == WakeRead(t) \/ WakeSet(t) \/ WakeCall(t)

ProducerStep(p) ==
  /\ ~child
  /\ EnqueueXchg(p) \/ EnqueueLink(p) \/ QlenInc(p) \/ Wake(p)
-----------------------------------------------------------------------------
(***************************************************************************)
(* The Destroyer: free_all_cpu_call_rcu_data() (606-620).                  *)
(***************************************************************************)
FreeRet(t) == IF t = D THEN "d_next" ELSE "c_loop"

notFree == <<workerVars, tgt, ret, pnode, pold, forks, child, ghostVars>>

(* One turn of for (cpu = 0; cpu < maxcpus; cpu++) (maxcpus <= 0 leaves   *)
(* no cpu): crdp = get_cpu_call_rcu_data(cpu); a NULL slot is skipped.     *)
FreeAllNext ==
  /\ pc[D] = "d_next"
  /\ \/ /\ dcpu \notin Cpus
        /\ Jump(D, "d_done")
        /\ UNCHANGED <<dcpu, dcur>>
     \/ /\ dcpu \in Cpus
        /\ dcur' = [dcur EXCEPT ![D] = percpu[dcpu]]
        /\ IF percpu[dcpu] = NULL
             THEN /\ dcpu' = dcpu + 1
                  /\ Jump(D, "d_next")
             ELSE /\ Jump(D, "d_set")
                  /\ UNCHANGED dcpu
  /\ UNCHANGED <<queueVars, notFree, regVars, dcbs, dtail, dprev>>

(* set_cpu_call_rcu_data(cpu, NULL): lock, range check, alloc (the array  *)
(* exists), unlock, store NULL; then straight into call_rcu_data_free(),   *)
(* and cpu++ once it returns.                                              *)
FreeAllSetNull ==
  /\ pc[D] = "d_set"
  /\ mutex = NULL
  /\ percpu' = [percpu EXCEPT ![dcpu] = NULL]
  /\ dcpu' = dcpu + 1
  /\ Jump(D, "f_check")
  /\ UNCHANGED <<queueVars, notFree, defaultW, inList, freed, mutex, dcur,
                 dcbs, dtail, dprev>>

(***************************************************************************)
(* call_rcu_data_free() (572-601) by thread t on dcur[t].                  *)
(***************************************************************************)
(* NULL and the default are refused; unless STOPPED, set STOP, wake the    *)
(* thread and poll for STOPPED.                                            *)
FreeCheck(t) ==
  LET x == dcur[t] IN
  /\ pc[t] = "f_check"
  /\ \/ /\ x = defaultW
        /\ Jump(t, FreeRet(t))
        /\ UNCHANGED <<flags, tgt, ret>>
     \/ /\ x # defaultW
        /\ IF "STOPPED" \in flags[x]
             THEN /\ Jump(t, "f_empty")
                  /\ UNCHANGED <<flags, tgt, ret>>
             ELSE /\ flags' = [flags EXCEPT ![x] = @ \cup {"STOP"}]
                  /\ CallWake(t, x, "f_stopwait")
  /\ UNCHANGED <<queueVars, futex, qlen, wpc, workerLocal, pnode, pold,
                 regVars, freeVars, forks, child, ghostVars>>

FreeStopWait(t) ==
  /\ pc[t] = "f_stopwait"
  /\ "STOPPED" \in flags[dcur[t]]
  /\ Jump(t, "f_empty")
  /\ UNCHANGED <<queueVars, notFree, regVars, freeVars>>

(* Only a non-empty queue is spliced, unlinked and freed: an empty one     *)
(* returns with crdp still listed and allocated.                           *)
FreeEmptyCheck(t) ==
  /\ pc[t] = "f_empty"
  /\ Jump(t, IF QueueEmpty(dcur[t]) THEN FreeRet(t) ELSE "f_head")
  /\ UNCHANGED <<queueVars, notFree, regVars, freeVars>>

FreeHead(t) ==
  LET h == Head(dcur[t]) IN
  /\ pc[t] = "f_head"
  /\ next[h] # NULL
  /\ dcbs' = [dcbs EXCEPT ![t] = next[h]]
  /\ next' = [next EXCEPT ![h] = NULL]
  /\ Jump(t, "f_xchg")
  /\ UNCHANGED <<tail, notFree, regVars, dcpu, dcur, dtail, dprev>>

FreeXchg(t) ==
  /\ pc[t] = "f_xchg"
  /\ dtail' = [dtail EXCEPT ![t] = tail[dcur[t]]]
  /\ tail' = [tail EXCEPT ![dcur[t]] = Head(dcur[t])]
  /\ Jump(t, "f_swap")
  /\ UNCHANGED <<next, notFree, regVars, dcpu, dcur, dcbs, dprev>>

(* cbs_endprev = uatomic_xchg(&default_call_rcu_data, cbs_tail): the      *)
(* global pointer itself, not the default's cbs.tail, takes cbs_tail.      *)
FreeSwap(t) ==
  /\ pc[t] = "f_swap"
  /\ dprev' = [dprev EXCEPT ![t] = defaultW]
  /\ defaultW' = dtail[t]
  /\ Jump(t, "f_link")
  /\ UNCHANGED <<queueVars, notFree, percpu, inList, freed, mutex, dcpu,
                 dcur, dcbs, dtail>>

(* *cbs_endprev = cbs: the first word of what cbs_endprev points to.       *)
FreeLink(t) ==
  /\ pc[t] = "f_link"
  /\ next' = [next EXCEPT ![Word(dprev[t])] = dcbs[t]]
  /\ Jump(t, "f_qlen")
  /\ UNCHANGED <<tail, notFree, regVars, freeVars>>

(* uatomic_add(&default_call_rcu_data->qlen, qlen): through a pointer that *)
(* is not a call_rcu_data it lands in other memory, not in any qlen.       *)
FreeQlen(t) ==
  /\ pc[t] = "f_qlen"
  /\ qlen' = IF defaultW \in Workers
               THEN [qlen EXCEPT ![defaultW] = @ + qlen[dcur[t]]] ELSE qlen
  /\ Jump(t, "f_free")
  /\ UNCHANGED <<queueVars, flags, futex, wpc, workerLocal, threadVars,
                 regVars, freeVars, forks, child, ghostVars>>

(* cds_list_del(&crdp->list), taking no lock, and free(crdp).             *)
FreeUnlink(t) ==
  /\ pc[t] = "f_free"
  /\ inList' = inList \ {dcur[t]}
  /\ freed' = freed \cup {dcur[t]}
  /\ Jump(t, FreeRet(t))
  /\ UNCHANGED <<queueVars, notFree, percpu, defaultW, mutex, freeVars>>

CallRcuDataFree(t) ==
  \/ FreeCheck(t) \/ FreeStopWait(t) \/ FreeEmptyCheck(t) \/ FreeHead(t)
  \/ FreeXchg(t) \/ FreeSwap(t) \/ FreeLink(t) \/ FreeQlen(t) \/ FreeUnlink(t)

DestroyerStep ==
  /\ ~child
  /\ FreeAllNext \/ FreeAllSetNull \/ Wake(D)
-----------------------------------------------------------------------------
(***************************************************************************)
(* The Forker: call_rcu_before_fork() (627-630), fork(), and               *)
(* call_rcu_after_fork_parent() (637-640) or _child() (647-671).           *)
(***************************************************************************)
ForkLock ==
  /\ pc[F] = "k_idle"
  /\ forks < ForkRounds
  /\ mutex = NULL
  /\ mutex' = F
  /\ Jump(F, "k_forked")
  /\ UNCHANGED <<queueVars, notFree, percpu, defaultW, inList, freed,
                 freeVars>>

ForkParent ==
  /\ pc[F] = "k_forked"
  /\ mutex' = NULL
  /\ forks' = forks + 1
  /\ Jump(F, "k_idle")
  /\ UNCHANGED <<queueVars, workerVars, tgt, ret, pnode, pold, percpu,
                 defaultW, inList, freed, freeVars, child, ghostVars>>

(* In the child only the forking thread runs: release call_rcu_mutex.      *)
ChildUnlock ==
  /\ pc[F] = "k_forked"
  /\ Spare # {}
  /\ child' = TRUE
  /\ mutex' = NULL
  /\ Jump(F, "c_default")
  /\ UNCHANGED <<queueVars, workerVars, tgt, ret, pnode, pold, percpu,
                 defaultW, inList, freed, freeVars, forks, ghostVars>>

(* default_call_rcu_data = NULL; get_default_call_rcu_data() finds it     *)
(* NULL under call_rcu_mutex and runs call_rcu_data_init(): a fresh        *)
(* structure, listed, planted as the default, its thread started.          *)
ChildNewDefault ==
  /\ pc[F] = "c_default"
  /\ \E s \in Spare :
       /\ wpc[s] = "unborn"
       /\ defaultW' = s
       /\ inList' = inList \cup {s}
       /\ wpc' = [wpc EXCEPT ![s] = "start"]
  /\ Jump(F, "c_loop")
  /\ UNCHANGED <<queueVars, flags, futex, qlen, workerLocal, tgt, ret, pnode,
                 pold, percpu, freed, mutex, freeVars, forks, child, ghostVars>>

(* while (list.next != list.prev): take the last entry (the entry before  *)
(* it if that is the default), mark it STOPPED and call_rcu_data_free()    *)
(* it.  The last entry is the same one until it leaves the list.           *)
ChildLoop ==
  /\ pc[F] = "c_loop"
  /\ \/ /\ Cardinality(inList) <= 1
        /\ Jump(F, "c_done")
        /\ UNCHANGED <<flags, dcur>>
     \/ /\ Cardinality(inList) > 1
        /\ LET x == CHOOSE w \in inList : w # defaultW
           IN /\ flags' = [flags EXCEPT ![x] = {"STOPPED"}]
              /\ dcur' = [dcur EXCEPT ![F] = x]
        /\ Jump(F, "f_check")
  /\ UNCHANGED <<queueVars, futex, qlen, wpc, workerLocal, tgt, ret, pnode,
                 pold, regVars, dcpu, dcbs, dtail, dprev, forks, child,
                 ghostVars>>

ForkerStep ==
  \/ ForkParent \/ ChildUnlock \/ ChildNewDefault \/ ChildLoop \/ Wake(F)

FreerStep(t) ==
  /\ t = D => ~child
  /\ CallRcuDataFree(t)

-----------------------------------------------------------------------------
Next ==
  \/ \E w \in Workers : WorkerStep(w)
  \/ \E p \in Producers : CallRcu(p) \/ ProducerStep(p)
  \/ DestroyerStep
  \/ ForkLock \/ ForkerStep
  \/ \E t \in Freers : FreerStep(t)

(* Every started thread keeps running; no fairness for starting a          *)
(* call_rcu() or a fork.                                                   *)
Fairness ==
  /\ \A w \in Workers : WF_vars(WorkerStep(w))
  /\ \A p \in Producers : WF_vars(ProducerStep(p))
  /\ WF_vars(DestroyerStep)
  /\ WF_vars(ForkerStep)
  /\ \A t \in Freers : WF_vars(FreerStep(t))

Spec == Init /\ [][Next]_vars /\ Fairness

-----------------------------------------------------------------------------
(***************************************************************************)
(* Properties.                                                             *)
(***************************************************************************)
TypeOK ==
  /\ next \in [Slots -> Nodes \cup {NULL}]
  /\ tail \in [Workers -> Slots]
  /\ flags \in [Workers -> SUBSET {"RT", "STOP", "STOPPED"}]
  /\ futex \in [Workers -> {0, -1, -2}]
  /\ wpc \in [Workers -> {"unborn", "start", "check", "head", "xchg",
                          "invoke", "qlen", "stopchk", "wait", "blocked",
                          "napdec", "exit", "stopped", "done"}]
  /\ tgt \in [Threads -> Workers \cup Slots \cup {NULL}]
  /\ percpu \in [Cpus -> Workers \cup {NULL}]
  /\ defaultW \in Workers \cup Slots
  /\ inList \subseteq Workers /\ freed \subseteq Workers
  /\ status \in [Callbacks -> {"linked", "queued", "freed"}]

FreePcs == {"f_check", "f_stopwait", "f_empty", "f_head", "f_xchg",
            "f_swap", "f_link", "f_qlen", "f_free"}

(* Every call_rcu_data pointer a thread is about to dereference names a    *)
(* live call_rcu_data: the crdp of call_rcu() from get_call_rcu_data()     *)
(* through its enqueue, qlen increment and wake-up; the crdp passed to    *)
(* call_rcu_data_free(); default_call_rcu_data when the splice adds to its *)
(* qlen; and no call_rcu thread runs on a freed structure.  The comment at *)
(* 401-403 rests on "we never free call_rcu_data structures", which        *)
(* free_all_cpu_call_rcu_data() (617-618) no longer honours, and the       *)
(* splice (594) stores a queue-node pointer into default_call_rcu_data.    *)
CrdpLive ==
  /\ \A p \in Producers :
       pc[p] \in {"enqueue", "link", "qlen", "wake_read", "wake_set",
                  "wake_call"} => tgt[p] \in Workers \ freed
  /\ \A t \in Freers : pc[t] \in FreePcs => dcur[t] \in Workers \ freed
  /\ \A t \in Freers : pc[t] = "f_qlen" => defaultW \in Workers \ freed
  /\ \A w \in freed : wpc[w] = "done"
=============================================================================
